---------------------------- MODULE Spec2Model ----------------------------
(***************************************************************************)
(* A model of the LOPA pipeline: the rate-limited Riot API client          *)
(* (riot_api.py), the incremental aggregation jobs (backfill_*.py,         *)
(* build_synergy.py), the checkpoint store (checkpoint_store.py), the      *)
(* graph crawler (collector_graph.py) and the recommender                  *)
(* (recommender.py).  Each component has its own specification over its    *)
(* own group of variables; the variables of the other components stay      *)
(* parked.                                                                 *)
(***************************************************************************)
EXTENDS Integers, Sequences, FiniteSets, Bags, TLC

VARIABLES
    \* ---- RiotClient (riot_api.py) ----
    now,                 \* the simulated clock time.time(), in seconds
    req_ts_1s,           \* self._req_ts_1s   (deque of timestamps)
    req_ts_120s,         \* self._req_ts_120s (deque of timestamps)
    limit_1s,            \* self.limit_1s
    limit_120s,          \* self.limit_120s
    throttle_limit_1s,   \* self.throttle_limit_1s
    throttle_limit_120s, \* self.throttle_limit_120s
    env_throttle,        \* whether RIOT_THROTTLE_1S / RIOT_THROTTLE_120S are set
    pace_enabled,        \* self.pace_enabled
    last_pace_ts,        \* self._last_pace_ts
    stats,               \* total_req, n_429, n_retry, sleep_sec_total
    cpc,                 \* position inside get(): "idle", "pace", "throttle", "send"
    attempt,             \* the loop variable of get()
    outcome,             \* how the last get() ended
    calls,               \* number of get() calls started
    sent,                \* history: one record per self.s.get(...) issued
    last429,             \* history: the last 429 of the running call, or None
    status_code,         \* r.status_code of the last attempt of get(), 0 when
                         \* the attempt got no response
    last_text,           \* the local last_text of get()
    \* ---- aggregation jobs (backfill_champ_role.py, backfill_matchups.py,
    \*      build_synergy.py) ----
    kind,                \* the statistic kind of the script that is run
    matches,             \* ids of the rows of table matches (committed)
    agg_tbl,             \* the committed rows of the kind's aggregate table (a bag)
    backfill_done,       \* the committed rows of backfill_done: <<job_id, match_id>>
    tx,                  \* the open transaction: <<>> or <<[agg, done, contrib]>>
    job,                 \* the arguments of the running script
    jpc,                 \* position inside main()
    mids,                \* the rows of the SELECT still to be looped over
    agg,                 \* main's dict agg: key -> <<games, wins>>
    done_rows,           \* main's list done_rows
    processed,           \* main's counter processed
    runs,                \* number of script runs started
    agg_src,             \* history: the matches folded into agg since agg.clear()
    contrib,             \* history: <<job_id, match_id>> -> times its increments
                         \* were committed since the job's last reset
    prev_run,            \* history: <<>> or <<[job, agg_tbl, done]>> as the last
                         \* complete run left them, while the store is unchanged
    last_abort,          \* history: <<>> or <<[job_id, in_later_flush]>>, the
                         \* last killed run and whether it was killed inside a
                         \* batch flush after it had committed another batch
    \* ---- checkpoint store (checkpoint_store.py) ----
    crawl_state,         \* the committed table crawl_state
    ck_saved,            \* history: <<>> or the arguments of the last save
    ck_loaded,           \* history: <<>> or what a load after it returned
    ck_raised,           \* whether the last call raised RuntimeError
    \* ---- crawler (collector_graph.py) ----
    args,                \* the command line of the crawler
    cr_pc,               \* position inside main()
    status,              \* how the last session ended
    sessions,            \* number of sessions started
    queue,               \* main's deque q
    seen,                \* main's set seen
    total_players,       \* main's counter total_players
    saved_matches,       \* main's counter saved_matches
    explored_non_target, \* main's counter explored_non_target
    since_commit,        \* main's counter since_commit
    loc,                 \* the locals of the loop body
    db,                  \* the committed tables
    wdb,                 \* the tables as the connection sees them, with
                         \* its uncommitted writes
    hist,                \* history: faults injected, interrupts, and what
                         \* the running session did after a 401/403
    \* ---- enemy role inference (recommender.py) ----
    enemy_ids,           \* the argument enemy_ids
    dist,                \* the argument dist: champion -> role -> games
    g_pc,                \* position inside guess_enemy_roles_iterative
    ids,                 \* the local ids
    remaining_champs,    \* the local remaining_champs
    remaining_roles,     \* the local remaining_roles
    assigned,            \* the local assigned
    guard,               \* the local guard
    out2,                \* the value returned
    \* ---- recommendation (recommender.py) ----
    agg_champ_role,      \* the rows of table agg_champ_role
    rq,                  \* the arguments of recommend_champions
    r_pc,                \* position inside recommend_champions
    candidates,          \* the local candidates
    recs,                \* the recommendations returned
    reason,              \* meta["reason"] of the value returned
    \* ---- match store (storage.py) ----
    store,               \* the rows of matches, participants, rank_snapshots, match_bans
    last_insert,         \* history: <<>> or <<the last insert call and its arguments>>
    \* ---- _wilson_lower_bound (recommender.py) ----
    wl_n,                \* the argument n of the calls
    wl_wins,             \* the argument wins of the next call
    wl_prev,             \* the value returned by the call before the last, or -1
    wl_lb                \* the value returned by the last call, or -1

clientVars == <<now, req_ts_1s, req_ts_120s, limit_1s, limit_120s,
                throttle_limit_1s, throttle_limit_120s, env_throttle,
                pace_enabled, last_pace_ts, stats, cpc, attempt, outcome,
                calls, sent, last429, status_code, last_text>>

aggVars == <<kind, matches, agg_tbl, backfill_done, tx, job, jpc, mids, agg,
             done_rows, processed, runs, agg_src, contrib, prev_run, last_abort>>

ckptVars == <<crawl_state, ck_saved, ck_loaded, ck_raised>>

crawlVars == <<args, cr_pc, status, sessions, queue, seen, total_players,
               saved_matches, explored_non_target, since_commit, loc, db, wdb,
               hist>>

guessVars == <<enemy_ids, dist, g_pc, ids, remaining_champs, remaining_roles,
               assigned, guard, out2>>

recVars == <<agg_champ_role, rq, r_pc, candidates, recs, reason>>

storeVars == <<store, last_insert>>

wilsonVars == <<wl_n, wl_wins, wl_prev, wl_lb>>

vars == <<clientVars, aggVars, ckptVars, crawlVars, guessVars, recVars, storeVars,
          wilsonVars>>

None == "None"
NULL == "NULL"

Max(a, b) == IF a >= b THEN a ELSE b
Min(a, b) == IF a <= b THEN a ELSE b

(***************************************************************************)
(*                              RiotClient                                 *)
(***************************************************************************)

\* Bounds of the client model.
MaxTime == 126          \* the simulated clock stops here
MaxCalls == 4           \* get() calls per behaviour
MaxSends == 4           \* requests issued per behaviour

\* Environment configuration of the modelled client (all are os.getenv knobs).
RIOT_LIMIT_1S == 3      \* RIOT_LIMIT_1S
RIOT_LIMIT_120S == 8    \* RIOT_LIMIT_120S
RIOT_MAX_TRIES == 3     \* RIOT_MAX_TRIES
RIOT_BASE_BACKOFF == 1  \* RIOT_BASE_BACKOFF, seconds

\* Program constants.
Window1 == 1            \* the 1.0 s window
Window120 == 120        \* the 120.0 s window
max_backoff == 20       \* default of RIOT_MAX_BACKOFF
PresetThrottle1 == 15   \* "dev" preset RIOT_THROTTLE_1S
PresetThrottle120 == 80 \* "dev" preset RIOT_THROTTLE_120S

max_tries == RIOT_MAX_TRIES
base_backoff == RIOT_BASE_BACKOFF

RECURSIVE Pow2(_)
Pow2(n) == IF n <= 0 THEN 1 ELSE 2 * Pow2(n - 1)

\* deque.popleft() while the head is older than the window
RECURSIVE Evict(_, _, _)
Evict(dq, t, w) ==
    IF dq # <<>> /\ t - Head(dq) > w THEN Evict(Tail(dq), t, w) ELSE dq

\* The values "X-App-Rate-Limit" may carry: absent, or a pair of budgets.
\* A header is <<>> when absent and <<value>> when present.
\* "X-App-Rate-Limit: a:1,b:120" is <<a, b>>.
AppRateLimitHeaders ==
    {<<>>, <<2, 4>>}

\* _parse_app_rate_limit: (lim_1s, lim_120s); 0 stands for None (both are
\* only tested for truth)
parse_app_rate_limit(h) ==
    IF h = <<>> THEN <<0, 0>> ELSE <<h[1], h[2]>>

\* The values "Retry-After" may carry, in seconds.
RetryAfterHeaders == {<<>>, <<7>>, <<30>>}

\* Statuses of a response that is neither 200, 401/403, 429 nor one of
\* 500, 502, 503 and 504.
OtherStatuses == {404, 501}

\* _sleep_with_jitter: the whole seconds the jittered sleep can last.
\* sec * (0.85 + 0.30 * random()) with random() in [0, 1), then min(., max_backoff)
sleep_with_jitter(sec) ==
    {n \in 0..max_backoff : 85 * sec <= 100 * n /\ 100 * n < 115 * sec}
    \cup (IF 115 * sec > 100 * max_backoff THEN {max_backoff} ELSE {})

\* min(self.max_backoff, self.base_backoff * (2 ** (attempt - 1)))
backoff_wait(a) == Min(max_backoff, base_backoff * Pow2(a - 1))

ClientInit ==
    /\ now = 1
    /\ req_ts_1s = <<>>
    /\ req_ts_120s = <<>>
    /\ limit_1s = RIOT_LIMIT_1S
    /\ limit_120s = RIOT_LIMIT_120S
    /\ env_throttle \in BOOLEAN
    /\ throttle_limit_1s =
          IF env_throttle THEN PresetThrottle1 ELSE Max(1, RIOT_LIMIT_1S - 1)
    /\ throttle_limit_120s =
          IF env_throttle THEN PresetThrottle120 ELSE Max(1, RIOT_LIMIT_120S - 5)
    /\ pace_enabled \in BOOLEAN
    /\ last_pace_ts = 0
    /\ stats = [total_req |-> 0, n_429 |-> 0, n_retry |-> 0, sleep_sec_total |-> 0]
    /\ cpc = "idle"
    /\ attempt = 0
    /\ outcome = None
    /\ calls = 0
    /\ sent = <<>>
    /\ last429 = <<>>
    /\ status_code = 0
    /\ last_text = None

\* def get(...): the call starts, attempt = 1
Get ==
    /\ cpc \in {"idle", "ready"}
    /\ calls < MaxCalls
    /\ calls' = calls + 1
    /\ attempt' = 1
    /\ outcome' = None
    /\ last429' = <<>>
    /\ status_code' = 0
    /\ last_text' = None
    /\ cpc' = "pace"
    /\ UNCHANGED <<now, req_ts_1s, req_ts_120s, limit_1s, limit_120s,
                   throttle_limit_1s, throttle_limit_120s, env_throttle,
                   pace_enabled, last_pace_ts, stats, sent>>

\* interval = max(120.0 / t120, 1.0 / t1), rounded up to whole seconds
pace_interval ==
    LET t120 == Max(1, throttle_limit_120s)
        t1 == Max(1, throttle_limit_1s)
    IN  Max((Window120 + t120 - 1) \div t120, (Window1 + t1 - 1) \div t1)

\* _pace_before_request
pace_before_request ==
    /\ cpc = "pace"
    /\ cpc' = "throttle"
    /\ IF ~pace_enabled
         THEN UNCHANGED <<now, last_pace_ts, stats>>
         ELSE IF last_pace_ts <= 0
         THEN /\ last_pace_ts' = now
              /\ UNCHANGED <<now, stats>>
         ELSE LET next_ts == last_pace_ts + pace_interval
                  sleep_s == IF now < next_ts THEN next_ts - now ELSE 0
              IN  /\ now + sleep_s <= MaxTime
                  /\ now' = now + sleep_s
                  /\ stats' = [stats EXCEPT !.sleep_sec_total = @ + sleep_s]
                  /\ last_pace_ts' = now'
    /\ UNCHANGED <<req_ts_1s, req_ts_120s, limit_1s, limit_120s,
                   throttle_limit_1s, throttle_limit_120s, env_throttle,
                   pace_enabled, attempt, outcome, calls, sent, last429,
                   status_code, last_text>>

\* need_wait of one iteration of the throttle loop, after the evictions
need_wait(d1, d120) ==
    LET w1 == IF Len(d1) >= throttle_limit_1s /\ d1 # <<>>
              THEN Max(0, (Head(d1) + Window1) - now) ELSE 0
        w120 == IF Len(d120) >= throttle_limit_120s /\ d120 # <<>>
                THEN Max(w1, (Head(d120) + Window120) - now) ELSE w1
    IN  w120

\* _throttle_before_request, the window loop.  The loop sleeps
\* min(need_wait, _sleep_quantum) per iteration and issues nothing in between:
\* the iterations that sleep are taken together, need_wait seconds in all.
throttle_before_request ==
    /\ cpc = "throttle"
    /\ LET d1 == Evict(req_ts_1s, now, Window1)
           d120 == Evict(req_ts_120s, now, Window120)
           nw == need_wait(d1, d120)
       IN  /\ req_ts_1s' = d1
           /\ req_ts_120s' = d120
           /\ IF nw <= 0
                THEN /\ cpc' = "send"
                     /\ UNCHANGED <<now, stats>>
                ELSE /\ now + nw <= MaxTime
                     /\ now' = now + nw
                     /\ stats' = [stats EXCEPT !.sleep_sec_total = @ + nw]
                     /\ cpc' = "throttle"
    /\ UNCHANGED <<limit_1s, limit_120s, throttle_limit_1s, throttle_limit_120s,
                   env_throttle, pace_enabled, last_pace_ts, attempt, outcome,
                   calls, sent, last429, status_code, last_text>>

\* _note_request: the fields it assigns, given the response's rate-limit header
note_request(h) ==
    LET lim == parse_app_rate_limit(h)
        up1 == lim[1] # 0 /\ lim[1] # limit_1s
        up120 == lim[2] # 0 /\ lim[2] # limit_120s
        l1 == IF up1 THEN lim[1] ELSE limit_1s
        l120 == IF up120 THEN lim[2] ELSE limit_120s
        updated == up1 \/ up120
    IN  [d1 |-> Evict(Append(req_ts_1s, now), now, Window1),
         d120 |-> Evict(Append(req_ts_120s, now), now, Window120),
         l1 |-> l1,
         l120 |-> l120,
         t1 |-> IF updated /\ ~env_throttle THEN Max(1, l1 - 1)
                ELSE throttle_limit_1s,
         t120 |-> IF updated /\ ~env_throttle THEN Max(1, l120 - 5)
                  ELSE throttle_limit_120s]

\* the assignments of _note_request
Noted(h) ==
    LET n == note_request(h)
    IN  /\ req_ts_1s' = n.d1
        /\ req_ts_120s' = n.d120
        /\ limit_1s' = n.l1
        /\ limit_120s' = n.l120
        /\ throttle_limit_1s' = n.t1
        /\ throttle_limit_120s' = n.t120

\* history: self.s.get(url, ...) is issued at the current time
Issue ==
    /\ Len(sent) < MaxSends
    /\ sent' = Append(sent, [t |-> now, call |-> calls, attempt |-> attempt,
                          th1 |-> throttle_limit_1s,
                          th120 |-> throttle_limit_120s])

\* A faulty variant of the loop, which never gives up
ContinueAlways ==
    /\ attempt' = attempt + 1
    /\ cpc' = "pace"
    /\ outcome' = outcome

\* "continue": the next iteration of the for loop, or the raise after the loop
Continue ==
    IF attempt < max_tries
    THEN /\ attempt' = attempt + 1
         /\ cpc' = "pace"
         /\ outcome' = outcome
    ELSE /\ attempt' = attempt
         /\ cpc' = "idle"
         /\ outcome' = "failed after retries"

\* get(): requests.RequestException from self.s.get
SendNetworkError ==
    /\ cpc = "send"
    /\ Issue
    /\ \E sec \in sleep_with_jitter(backoff_wait(attempt)) :
         /\ now + sec <= MaxTime
         /\ now' = now + sec
         /\ stats' = [stats EXCEPT !.n_retry = @ + 1, !.sleep_sec_total = @ + sec]
    /\ status_code' = 0
    /\ last_text' = "network error"
    /\ Continue
    /\ UNCHANGED <<req_ts_1s, req_ts_120s, limit_1s, limit_120s,
                   throttle_limit_1s, throttle_limit_120s, env_throttle,
                   pace_enabled, last_pace_ts, calls, last429>>

\* get(): status 200, return r.json()
Resp200 ==
    /\ cpc = "send"
    /\ Issue
    /\ \E h \in AppRateLimitHeaders : Noted(h)
    /\ stats' = [stats EXCEPT !.total_req = @ + 1]
    /\ cpc' = "idle"
    /\ outcome' = "json"
    /\ status_code' = 200
    /\ UNCHANGED <<now, env_throttle, pace_enabled, last_pace_ts, attempt,
                   calls, last429, last_text>>

\* A faulty variant of the 401/403 branch, which backs off and retries
RespAuthRetried ==
    /\ cpc = "send"
    /\ Issue
    /\ \E h \in AppRateLimitHeaders : Noted(h)
    /\ \E sec \in sleep_with_jitter(backoff_wait(attempt)) :
         /\ now + sec <= MaxTime
         /\ now' = now + sec
         /\ stats' = [stats EXCEPT !.total_req = @ + 1, !.n_retry = @ + 1,
                                   !.sleep_sec_total = @ + sec]
    /\ status_code' \in {401, 403}
    /\ last_text' = "text"
    /\ Continue
    /\ UNCHANGED <<env_throttle, pace_enabled, last_pace_ts, calls, last429>>

\* get(): status 401 or 403, raise RuntimeError
RespAuth ==
    /\ cpc = "send"
    /\ Issue
    /\ \E h \in AppRateLimitHeaders : Noted(h)
    /\ stats' = [stats EXCEPT !.total_req = @ + 1]
    /\ cpc' = "idle"
    /\ outcome' = "Unauthorized/Forbidden"
    /\ status_code' \in {401, 403}
    /\ UNCHANGED <<now, env_throttle, pace_enabled, last_pace_ts, attempt,
                   calls, last429, last_text>>

\* get(): status 429
Resp429 ==
    /\ cpc = "send"
    /\ Issue
    /\ \E h \in AppRateLimitHeaders : Noted(h)
    /\ \E hra \in RetryAfterHeaders :
         LET ra == IF hra = <<>> THEN backoff_wait(attempt) ELSE hra[1]
             sleep_s == Max(1, ra)
         IN  \E sec \in sleep_with_jitter(sleep_s) :
               /\ now + sec <= MaxTime
               /\ now' = now + sec
               /\ stats' = [stats EXCEPT !.total_req = @ + 1, !.n_429 = @ + 1,
                                         !.n_retry = @ + 1,
                                         !.sleep_sec_total = @ + sec]
               /\ last429' = <<[t |-> now, retry_after |-> hra]>>
    /\ status_code' = 429
    /\ last_text' = "text"
    /\ Continue
    /\ UNCHANGED <<env_throttle, pace_enabled, last_pace_ts, calls>>

\* get(): status 500, 502, 503 or 504 (retry_5xx is True)
Resp5xx ==
    /\ cpc = "send"
    /\ Issue
    /\ \E h \in AppRateLimitHeaders : Noted(h)
    /\ \E sec \in sleep_with_jitter(backoff_wait(attempt)) :
         /\ now + sec <= MaxTime
         /\ now' = now + sec
         /\ stats' = [stats EXCEPT !.total_req = @ + 1, !.n_retry = @ + 1,
                                   !.sleep_sec_total = @ + sec]
    /\ status_code' \in {500, 502, 503, 504}
    /\ last_text' = "text"
    /\ Continue
    /\ UNCHANGED <<env_throttle, pace_enabled, last_pace_ts, calls, last429>>

\* get(): any other status: r.raise_for_status(), then return r.json()
RespOther ==
    /\ cpc = "send"
    /\ Issue
    /\ \E h \in AppRateLimitHeaders : Noted(h)
    /\ stats' = [stats EXCEPT !.total_req = @ + 1]
    /\ cpc' = "idle"
    /\ \E st \in OtherStatuses :
         /\ status_code' = st
         /\ outcome' = IF st >= 400 THEN "HTTPError" ELSE "json"
    /\ UNCHANGED <<now, env_throttle, pace_enabled, last_pace_ts, attempt,
                   calls, last429, last_text>>

\* Between two calls the caller spends time elsewhere (the crawler writes to
\* the store), once per call.
IdleSteps == {1, 60}

CallerWork ==
    /\ cpc = "idle"
    /\ \E d \in IdleSteps :
         /\ now + d <= MaxTime
         /\ now' = now + d
    /\ cpc' = "ready"
    /\ UNCHANGED <<req_ts_1s, req_ts_120s, limit_1s, limit_120s,
                   throttle_limit_1s, throttle_limit_120s, env_throttle,
                   pace_enabled, last_pace_ts, stats, attempt, outcome,
                   calls, sent, last429, status_code, last_text>>

ClientNext ==
    \/ Get /\ UNCHANGED <<aggVars, ckptVars, crawlVars, guessVars, recVars, storeVars, wilsonVars>>
    \/ pace_before_request /\ UNCHANGED <<aggVars, ckptVars, crawlVars, guessVars, recVars, storeVars, wilsonVars>>
    \/ throttle_before_request /\ UNCHANGED <<aggVars, ckptVars, crawlVars, guessVars, recVars, storeVars, wilsonVars>>
    \/ SendNetworkError /\ UNCHANGED <<aggVars, ckptVars, crawlVars, guessVars, recVars, storeVars, wilsonVars>>
    \/ Resp200 /\ UNCHANGED <<aggVars, ckptVars, crawlVars, guessVars, recVars, storeVars, wilsonVars>>
    \/ RespAuth /\ UNCHANGED <<aggVars, ckptVars, crawlVars, guessVars, recVars, storeVars, wilsonVars>>
    \/ Resp429 /\ UNCHANGED <<aggVars, ckptVars, crawlVars, guessVars, recVars, storeVars, wilsonVars>>
    \/ Resp5xx /\ UNCHANGED <<aggVars, ckptVars, crawlVars, guessVars, recVars, storeVars, wilsonVars>>
    \/ RespOther /\ UNCHANGED <<aggVars, ckptVars, crawlVars, guessVars, recVars, storeVars, wilsonVars>>
    \/ CallerWork /\ UNCHANGED <<aggVars, ckptVars, crawlVars, guessVars, recVars, storeVars, wilsonVars>>

(***************************************************************************)
(* The aggregation jobs: backfill_champ_role.py, backfill_matchups.py and  *)
(* build_synergy.py.  The three scripts share their main(); they differ in *)
(* the job-id prefix, the aggregate table and the keys a match yields.     *)
(***************************************************************************)
ROLES == <<"TOP", "JUNGLE", "MIDDLE", "BOTTOM", "UTILITY">>

RoleSet == {ROLES[i] : i \in 1..Len(ROLES)}

Kinds == {"champ_role", "matchups", "synergy"}

\* The rows the crawler can have written: matches(match_id, game_creation,
\* patch), match_tier.tier_label (NULL: no label) and the participants rows
\* of the match in rowid order.  Match ids are numbered in their text order.
MatchRows ==
    <<[game_creation |-> 10, patch |-> "16.1", mt_tier |-> "EMERALD",
       participants |->
         <<[team_id |-> 100, role |-> "TOP", champ_id |-> 7, win |-> 1],
           [team_id |-> 200, role |-> "TOP", champ_id |-> 8, win |-> 0],
           [team_id |-> 200, role |-> "UNKNOWN", champ_id |-> 9, win |-> 0]>>],
      [game_creation |-> 20, patch |-> "16.2", mt_tier |-> NULL,
       participants |->
         <<[team_id |-> 100, role |-> "TOP", champ_id |-> 7, win |-> 0],
           [team_id |-> 100, role |-> "JUNGLE", champ_id |-> 0, win |-> 0],
           [team_id |-> 200, role |-> "TOP", champ_id |-> 8, win |-> 1]>>],
      [game_creation |-> 20, patch |-> "16.2", mt_tier |-> "GOLD",
       participants |->
         <<[team_id |-> 100, role |-> "TOP", champ_id |-> 7, win |-> 1],
           [team_id |-> 100, role |-> "TOP", champ_id |-> 9, win |-> 1],
           [team_id |-> 200, role |-> "MIDDLE", champ_id |-> 8, win |-> 0]>>],
      [game_creation |-> 30, patch |-> "16.2", mt_tier |-> NULL,
       participants |->
         <<[team_id |-> 100, role |-> "TOP", champ_id |-> 7, win |-> 1],
           [team_id |-> 200, role |-> "TOP", champ_id |-> 8, win |-> 0]>>]>>

MatchIds == DOMAIN MatchRows

\* The matches played up to the time LastEarly; the match after it is one
\* more match without a label, of the patch of match 2
LastEarly == 20

EarlyMatchIds == {m \in MatchIds : MatchRows[m].game_creation <= LastEarly}

PatchArgs == {"ALL", "16.2"}

TierArgs == {"ALL", "EMERALD"}

CommitEveryArgs == {1, 2}

job_id(k, patch, tier) == <<k, patch, tier>>

JobIds == {job_id(k, p, t) : k \in Kinds, p \in PatchArgs, t \in TierArgs}

patch_pat(patch) == IF patch = "ALL" THEN "%" ELSE patch

force_tier(tier) == IF tier = "ALL" THEN NULL ELSE tier

\* SQL: value LIKE pattern, for the patterns patch_pat yields
Like(value, pat) == pat = "%" \/ value = pat

jobid == job_id(kind, job.patch, job.tier)

\* A faulty variant of the selection, which forgets the done-ledger
new_matches_all(done) ==
    {m \in matches : Like(MatchRows[m].patch, patch_pat(job.patch))}

\* WHERE m.patch LIKE ? AND NOT EXISTS (SELECT 1 FROM backfill_done ...)
new_matches(done) ==
    {m \in matches : /\ Like(MatchRows[m].patch, patch_pat(job.patch))
                     /\ <<jobid, m>> \notin done}

count_new_matches == Cardinality(new_matches(backfill_done))

\* ORDER BY m.game_creation ASC, m.match_id ASC
RECURSIVE OrderBy(_)
OrderBy(S) ==
    IF S = {} THEN <<>>
    ELSE LET m == CHOOSE x \in S : \A y \in S \ {x} :
                     \/ MatchRows[x].game_creation < MatchRows[y].game_creation
                     \/ /\ MatchRows[x].game_creation = MatchRows[y].game_creation
                        /\ x < y
         IN  <<m>> \o OrderBy(S \ {m})

\* The participants of a match that pass the role and champion filters
ValidRows(mid) ==
    {i \in DOMAIN MatchRows[mid].participants :
        /\ MatchRows[mid].participants[i].role \in RoleSet
        /\ MatchRows[mid].participants[i].champ_id > 0}

\* backfill_matchups.py: team_slots keeps the first row of each (team, role)
team_slots(mid) ==
    LET P == MatchRows[mid].participants
    IN  {i \in ValidRows(mid) :
            ~ \E j \in ValidRows(mid) :
                j < i /\ P[j].team_id = P[i].team_id /\ P[j].role = P[i].role}

\* The increments of one match: one element per execution of
\* agg[key][0] += 1, with the key and the amount added to agg[key][1].
increments(k, mid, tier) ==
    LET P == MatchRows[mid].participants
        patch == MatchRows[mid].patch
    IN  CASE k = "champ_role" ->
               {[key |-> <<patch, tier, P[i].role, P[i].champ_id>>,
                 win |-> P[i].win, at |-> <<i>>] : i \in ValidRows(mid)}
          [] k = "matchups" ->
               {[key |-> <<patch, tier, P[x[1]].role, P[x[2]].role,
                           P[x[1]].champ_id, P[x[2]].champ_id>>,
                 win |-> P[x[1]].win, at |-> x] :
                  x \in {y \in team_slots(mid) \X team_slots(mid) :
                            P[y[1]].team_id # P[y[2]].team_id}}
          [] k = "synergy" ->
               {[key |-> <<patch, tier, P[x[1]].role, P[x[2]].role,
                           P[x[1]].champ_id, P[x[2]].champ_id>>,
                 win |-> P[x[1]].win, at |-> x] :
                  x \in {y \in ValidRows(mid) \X ValidRows(mid) :
                            /\ P[y[1]].team_id = P[y[2]].team_id
                            /\ ~ (/\ P[y[1]].role = P[y[2]].role
                                  /\ P[y[1]].champ_id = P[y[2]].champ_id)}}

\* A faulty variant of add_increments, which adds the wins to the games and
\* the games to the wins
add_increments_swapped(a, E) ==
    [key \in DOMAIN a \cup {e.key : e \in E} |->
        LET old == IF key \in DOMAIN a THEN a[key] ELSE <<0, 0>>
        IN  <<old[1] + Cardinality({e \in E : e.key = key /\ e.win = 1}),
              old[2] + Cardinality({e \in E : e.key = key})>>]

\* agg[key][0] += 1; agg[key][1] += win, for every increment in E
add_increments(a, E) ==
    [key \in DOMAIN a \cup {e.key : e \in E} |->
        LET old == IF key \in DOMAIN a THEN a[key] ELSE <<0, 0>>
        IN  <<old[1] + Cardinality({e \in E : e.key = key}),
              old[2] + Cardinality({e \in E : e.key = key /\ e.win = 1})>>]

\* INSERT ... ON CONFLICT(primary key) DO UPDATE SET games = games +
\* excluded.games, wins = wins + excluded.wins, for every item of agg.  A key
\* whose tier is NULL conflicts with no row (SQL NULLs are distinct in a
\* primary key), so its row is always inserted.
conflict_rows(tbl, a) ==
    {r \in DOMAIN tbl : r.key \in DOMAIN a /\ r.key[2] # NULL}

upsert_rows(tbl, a) ==
    {[key |-> key,
      games |-> a[key][1] +
          (IF \E r \in conflict_rows(tbl, a) : r.key = key
           THEN (CHOOSE r \in conflict_rows(tbl, a) : r.key = key).games ELSE 0),
      wins |-> a[key][2] +
          (IF \E r \in conflict_rows(tbl, a) : r.key = key
           THEN (CHOOSE r \in conflict_rows(tbl, a) : r.key = key).wins ELSE 0)] :
        key \in DOMAIN a}

executemany_upsert(tbl, a) ==
    (tbl (-) SetToBag(conflict_rows(tbl, a))) (+) SetToBag(upsert_rows(tbl, a))

\* INSERT OR IGNORE INTO backfill_done(job_id, match_id)
executemany_done(done, rows) == done \cup {rows[i] : i \in DOMAIN rows}

\* A faulty variant of the DELETE, which deletes nothing
delete_agg_none(tbl, patch, tier) == tbl

\* DELETE FROM <aggregate table> WHERE patch LIKE ? [AND tier = ?]
delete_agg(tbl, patch, tier) ==
    [r \in {x \in DOMAIN tbl :
                ~ (/\ Like(x.key[1], patch_pat(patch))
                   /\ (force_tier(tier) = NULL \/ x.key[2] = force_tier(tier)))}
        |-> tbl[r]]

\* A faulty variant of agg.clear(), which keeps the flushed items
agg_kept(a) == a

agg_clear(a) == <<>>

MaxRuns == 3

\* The store holds at least this many matches before the first run
MinMatches == 2

\* Empty aggregate rows, an empty ledger and no job started
AggFresh ==
    /\ agg_tbl = EmptyBag
    /\ backfill_done = {}
    /\ tx = <<>>
    /\ job = [patch |-> "ALL", tier |-> "ALL", reset |-> FALSE, commit_every |-> 1]
    /\ jpc = "idle"
    /\ mids = <<>>
    /\ agg = <<>>
    /\ done_rows = <<>>
    /\ processed = 0
    /\ runs = 0
    /\ agg_src = <<>>
    /\ contrib = [x \in JobIds \X MatchIds |-> 0]
    /\ prev_run = <<>>
    /\ last_abort = <<>>

AggInit ==
    /\ kind \in Kinds
    /\ matches \in {S \in SUBSET EarlyMatchIds : Cardinality(S) >= MinMatches}
    /\ AggFresh

\* A store for the champ-role jobs that holds at least two matches without a
\* tier label
UnlabelledInit ==
    /\ kind = "champ_role"
    /\ matches \in {S \in SUBSET MatchIds :
                        \E m, n \in S : /\ m # n
                                        /\ MatchRows[m].mt_tier = NULL
                                        /\ MatchRows[n].mt_tier = NULL}
    /\ AggFresh

AggParked ==
    /\ kind = "champ_role"
    /\ matches = {}
    /\ agg_tbl = EmptyBag
    /\ backfill_done = {}
    /\ tx = <<>>
    /\ job = [patch |-> "ALL", tier |-> "ALL", reset |-> FALSE, commit_every |-> 1]
    /\ jpc = "idle"
    /\ mids = <<>>
    /\ agg = <<>>
    /\ done_rows = <<>>
    /\ processed = 0
    /\ runs = 0
    /\ agg_src = <<>>
    /\ contrib = [x \in JobIds \X MatchIds |-> 0]
    /\ prev_run = <<>>
    /\ last_abort = <<>>

\* The script is started with --patch, --tier, [--reset], --commit_every
RunScript ==
    /\ jpc = "idle"
    /\ runs < MaxRuns
    /\ runs' = runs + 1
    /\ \E p \in PatchArgs, t \in TierArgs, r \in BOOLEAN, ce \in CommitEveryArgs :
         /\ job' = [patch |-> p, tier |-> t, reset |-> r, commit_every |-> ce]
         /\ jpc' = IF r THEN "reset" ELSE "count"
    /\ UNCHANGED <<kind, matches, agg_tbl, backfill_done, tx, mids, agg,
                   done_rows, processed, agg_src, contrib, prev_run,
                   last_abort>>

\* _reset: the two DELETEs, inside the transaction they open
Reset ==
    /\ jpc = "reset"
    /\ tx' = <<[agg |-> delete_agg(agg_tbl, job.patch, job.tier),
                done |-> {d \in backfill_done : d[1] # jobid},
                contrib |-> [x \in JobIds \X MatchIds |->
                                IF x[1] = jobid THEN 0 ELSE contrib[x]]]>>
    /\ jpc' = "reset_commit"
    /\ UNCHANGED <<kind, matches, agg_tbl, backfill_done, job, mids, agg,
                   done_rows, processed, runs, agg_src, contrib, prev_run,
                   last_abort>>

\* con.commit(): the open transaction becomes the committed state
Commit ==
    /\ tx # <<>>
    /\ agg_tbl' = tx[1].agg
    /\ backfill_done' = tx[1].done
    /\ contrib' = tx[1].contrib
    /\ tx' = <<>>

ResetCommit ==
    /\ jpc = "reset_commit"
    /\ Commit
    /\ jpc' = "count"
    /\ UNCHANGED <<kind, matches, job, mids, agg, done_rows, processed, runs,
                   agg_src, prev_run, last_abort>>

\* main() returns: the history remembers how a complete run left the tables,
\* and counts the complete re-runs of the same job without --reset since.
Completed(tbl, done) ==
    prev_run' =
        IF prev_run # <<>> /\ prev_run[1].job_id = jobid /\ ~ job.reset
        THEN <<[prev_run[1] EXCEPT !.reruns = 1]>>
        ELSE <<[job_id |-> jobid, agg_tbl |-> tbl, done |-> done, reruns |-> 0]>>

\* new_cnt = _count_new_matches(...); return if there is nothing to do,
\* otherwise SELECT the new matches in order and initialise the loop
CountNew ==
    /\ jpc = "count"
    /\ IF count_new_matches <= 0
       THEN /\ jpc' = "idle"
            /\ Completed(agg_tbl, backfill_done)
            /\ UNCHANGED <<mids, agg, done_rows, processed, agg_src>>
       ELSE /\ mids' = OrderBy(new_matches(backfill_done))
            /\ agg' = <<>>
            /\ done_rows' = <<>>
            /\ processed' = 0
            /\ agg_src' = <<>>
            /\ jpc' = "loop"
            /\ UNCHANGED prev_run
    /\ UNCHANGED <<kind, matches, agg_tbl, backfill_done, tx, job, runs, contrib,
                   last_abort>>

\* One iteration of for (mid, patch, mt_tier) in mids, up to the test
\* processed % commit_every == 0
LoopBody ==
    /\ jpc = "loop"
    /\ mids # <<>>
    /\ LET mid == Head(mids)
           tier == IF force_tier(job.tier) # NULL THEN force_tier(job.tier)
                   ELSE MatchRows[mid].mt_tier
       IN  /\ agg' = add_increments(agg, increments(kind, mid, tier))
           /\ agg_src' = Append(agg_src, mid)
           /\ done_rows' = Append(done_rows, <<jobid, mid>>)
    /\ mids' = Tail(mids)
    /\ processed' = processed + 1
    /\ jpc' = IF processed' % job.commit_every = 0 THEN "flush" ELSE "loop"
    /\ UNCHANGED <<kind, matches, agg_tbl, backfill_done, tx, job, runs,
                   contrib, prev_run,
                   last_abort>>

\* The history of an upsert of agg: every match folded into agg is added once
\* more to the counters
noted_src(c, src) ==
    [x \in JobIds \X MatchIds |->
        c[x] + (IF x[1] = jobid
                THEN Cardinality({i \in DOMAIN src : src[i] = x[2]}) ELSE 0)]

\* con.execute("BEGIN;"); con.executemany(<upsert>, agg.items())
FlushAgg ==
    /\ jpc = "flush"
    /\ tx' = <<[agg |-> executemany_upsert(agg_tbl, agg),
                done |-> backfill_done,
                contrib |-> noted_src(contrib, agg_src)]>>
    /\ jpc' = "flush_done"
    /\ UNCHANGED <<kind, matches, agg_tbl, backfill_done, job, mids, agg,
                   done_rows, processed, runs, agg_src, contrib, prev_run,
                   last_abort>>

\* con.executemany("INSERT OR IGNORE INTO backfill_done ...", done_rows)
FlushDone ==
    /\ jpc = "flush_done"
    /\ tx' = <<[tx[1] EXCEPT !.done = executemany_done(@, done_rows)]>>
    /\ jpc' = "flush_commit"
    /\ UNCHANGED <<kind, matches, agg_tbl, backfill_done, job, mids, agg,
                   done_rows, processed, runs, agg_src, contrib, prev_run,
                   last_abort>>

\* con.commit(); agg.clear(); done_rows.clear()
FlushCommit ==
    /\ jpc = "flush_commit"
    /\ Commit
    /\ agg' = agg_clear(agg)
    /\ agg_src' = IF DOMAIN agg' = {} THEN <<>> ELSE agg_src
    /\ done_rows' = <<>>
    /\ jpc' = "loop"
    /\ UNCHANGED <<kind, matches, job, mids, processed, runs, prev_run,
                   last_abort>>

\* After the loop: if agg or done_rows, the last batch is written inside one
\* transaction; otherwise main() returns
FinalFlush ==
    /\ jpc = "loop"
    /\ mids = <<>>
    /\ IF DOMAIN agg # {} \/ done_rows # <<>>
       THEN /\ tx' = <<[agg |-> IF DOMAIN agg # {}
                                THEN executemany_upsert(agg_tbl, agg)
                                ELSE agg_tbl,
                        done |-> IF done_rows # <<>>
                                 THEN executemany_done(backfill_done, done_rows)
                                 ELSE backfill_done,
                        contrib |-> IF DOMAIN agg # {}
                                    THEN noted_src(contrib, agg_src)
                                    ELSE contrib]>>
            /\ jpc' = "final_commit"
            /\ UNCHANGED prev_run
       ELSE /\ jpc' = "idle"
            /\ Completed(agg_tbl, backfill_done)
            /\ UNCHANGED tx
    /\ UNCHANGED <<kind, matches, agg_tbl, backfill_done, job, mids, agg,
                   done_rows, processed, runs, agg_src, contrib, last_abort>>

FinalCommit ==
    /\ jpc = "final_commit"
    /\ Commit
    /\ Completed(tx[1].agg, tx[1].done)
    /\ jpc' = "idle"
    /\ UNCHANGED <<kind, matches, job, mids, agg, done_rows, processed, runs,
                   agg_src, last_abort>>

\* The process is killed at an arbitrary point of main(): the open
\* transaction is rolled back and the process memory is lost
Abort ==
    /\ jpc # "idle"
    /\ jpc' = "idle"
    /\ tx' = <<>>
    /\ mids' = <<>>
    /\ agg' = <<>>
    /\ done_rows' = <<>>
    /\ agg_src' = <<>>
    /\ processed' = 0
    /\ prev_run' = IF prev_run # <<>> /\ prev_run[1].job_id = jobid /\ ~ job.reset
                   THEN prev_run ELSE <<>>
    /\ last_abort' = <<[job_id |-> jobid,
                         in_later_flush |->
                             /\ jpc \in {"flush_done", "flush_commit"}
                             /\ processed - Len(done_rows) >= 1]>>
    /\ UNCHANGED <<kind, matches, agg_tbl, backfill_done, job, runs, contrib>>

\* Between two runs the crawler commits the rows of one more match
CrawlerInsertsMatch ==
    /\ jpc = "idle"
    /\ \E m \in EarlyMatchIds \ matches : matches' = matches \cup {m}
    /\ prev_run' = <<>>
    /\ UNCHANGED <<kind, agg_tbl, backfill_done, tx, job, jpc, mids, agg,
                   done_rows, processed, runs, agg_src, contrib, last_abort>>

AggNext ==
    \/ RunScript /\ UNCHANGED <<clientVars, ckptVars, crawlVars, guessVars, recVars, storeVars, wilsonVars>>
    \/ Reset /\ UNCHANGED <<clientVars, ckptVars, crawlVars, guessVars, recVars, storeVars, wilsonVars>>
    \/ ResetCommit /\ UNCHANGED <<clientVars, ckptVars, crawlVars, guessVars, recVars, storeVars, wilsonVars>>
    \/ CountNew /\ UNCHANGED <<clientVars, ckptVars, crawlVars, guessVars, recVars, storeVars, wilsonVars>>
    \/ LoopBody /\ UNCHANGED <<clientVars, ckptVars, crawlVars, guessVars, recVars, storeVars, wilsonVars>>
    \/ FlushAgg /\ UNCHANGED <<clientVars, ckptVars, crawlVars, guessVars, recVars, storeVars, wilsonVars>>
    \/ FlushDone /\ UNCHANGED <<clientVars, ckptVars, crawlVars, guessVars, recVars, storeVars, wilsonVars>>
    \/ FlushCommit /\ UNCHANGED <<clientVars, ckptVars, crawlVars, guessVars, recVars, storeVars, wilsonVars>>
    \/ FinalFlush /\ UNCHANGED <<clientVars, ckptVars, crawlVars, guessVars, recVars, storeVars, wilsonVars>>
    \/ FinalCommit /\ UNCHANGED <<clientVars, ckptVars, crawlVars, guessVars, recVars, storeVars, wilsonVars>>
    \/ Abort /\ UNCHANGED <<clientVars, ckptVars, crawlVars, guessVars, recVars, storeVars, wilsonVars>>
    \/ CrawlerInsertsMatch /\ UNCHANGED <<clientVars, ckptVars, crawlVars, guessVars, recVars, storeVars, wilsonVars>>

(***************************************************************************)
(* The checkpoint store: checkpoint_store.py.  A Python str is a sequence  *)
(* of pieces of text (one-character strings, or longer pieces without      *)
(* special characters); a JSON text is such a sequence too.                *)
(***************************************************************************)
\* A faulty variant of the escaping, which writes every character as it is
escape_none(s) == s

\* json.dumps of a str: the escapes of ", \ and of the control character \n
RECURSIVE escape(_)
escape(s) ==
    IF s = <<>> THEN <<>>
    ELSE (CASE Head(s) = "\"" -> <<"\\", "\"">>
            [] Head(s) = "\\" -> <<"\\", "\\">>
            [] Head(s) = "\n" -> <<"\\", "n">>
            [] OTHER -> <<Head(s)>>) \o escape(Tail(s))

quote(s) == <<"\"">> \o escape(s) \o <<"\"">>

\* json.dumps(list of str): items separated by ", "
RECURSIVE dumps_items(_)
dumps_items(l) ==
    IF l = <<>> THEN <<>>
    ELSE quote(Head(l)) \o (IF Tail(l) = <<>> THEN <<>> ELSE <<",", " ">>)
         \o dumps_items(Tail(l))

dumps_list(l) == <<"[">> \o dumps_items(l) \o <<"]">>

\* The scanner of json.loads.  The run of backslashes that ends just before
\* position i: a quote after an even run closes or opens a string
backslashes_before(txt, i) ==
    LET stop == {j \in 0..(i - 1) : j = 0 \/ txt[j] # "\\"}
        last == CHOOSE j \in stop : \A k \in stop : k <= j
    IN  i - 1 - last

quotes(txt) ==
    {i \in DOMAIN txt : txt[i] = "\"" /\ backslashes_before(txt, i) % 2 = 0}

\* The positions where a token starts, Q being the quotes: an opening quote,
\* or a piece outside the strings that is not whitespace
token_starts(txt, Q) ==
    {i \in DOMAIN txt : Cardinality({q \in Q : q < i}) % 2 = 0 /\ txt[i] # " "}

\* The str between the quotes at a and b, or the ValueError for an invalid
\* escape or a control character
string_token(txt, a, b) ==
    LET intro(i) == txt[i] = "\\" /\ backslashes_before(txt, i) % 2 = 0
        kept == {i \in (a + 1)..(b - 1) : ~ intro(i)}
        at(k) == CHOOSE i \in kept : Cardinality({j \in kept : j < i}) = k - 1
        ch(i) == IF i - 1 > a /\ intro(i - 1)
                 THEN (IF txt[i] = "n" THEN "\n" ELSE txt[i])
                 ELSE txt[i]
        ok == \A i \in kept :
                IF i - 1 > a /\ intro(i - 1)
                THEN txt[i] \in {"\"", "\\", "n"}
                ELSE txt[i] # "\n"
    IN  [kind |-> IF ok THEN "str" ELSE "error",
         v |-> IF ok THEN [k \in 1..Cardinality(kept) |-> ch(at(k))] ELSE <<>>]

\* The token that starts at position i
token(txt, Q, i) ==
    LET closing == CHOOSE b \in Q : b > i /\ \A q \in Q : q > i => b <= q
    IN  IF i \in Q
        THEN (IF \E b \in Q : b > i THEN string_token(txt, i, closing)
              ELSE [kind |-> "error", v |-> <<>>])
        ELSE [kind |-> "piece", v |-> <<txt[i]>>]

\* The tokens of a text, in order, S being the positions where they start
tokens_at(txt, Q, S) ==
    [k \in 1..Cardinality(S) |->
        token(txt, Q, CHOOSE i \in S : Cardinality({j \in S : j < i}) = k - 1)]

tokens_in(txt, Q) == tokens_at(txt, Q, token_starts(txt, Q))

tokens(txt) == tokens_in(txt, quotes(txt))

\* A token that is the piece c
is_piece(tok, c) == tok.kind = "piece" /\ tok.v = <<c>>

\* The list of str that the tokens T spell, or the ValueError
list_of_tokens(T) ==
    LET n == Len(T)
        m == (n - 1) \div 2
        ok == /\ n >= 2
              /\ is_piece(T[1], "[")
              /\ is_piece(T[n], "]")
              /\ n > 2 => (n - 1) % 2 = 0
              /\ n > 2 => \A g \in 1..m :
                            /\ T[2 * g].kind = "str"
                            /\ g < m => is_piece(T[2 * g + 1], ",")
    IN  [ok |-> ok, val |-> IF ok THEN [g \in 1..m |-> T[2 * g].v] ELSE <<>>]

\* json.loads of a text that should hold a list of str: the value, or the
\* ValueError that json.loads raises
loads_list(txt) == list_of_tokens(tokens(txt))

\* The largest integer a meta value takes
MaxInt == 9

\* A dict is the sequence of its <<key, value>> items in insertion order; a
\* value is [n |-> integer] or [s |-> str].
dumps_value(v) == IF "n" \in DOMAIN v THEN <<ToString(v.n)>> ELSE quote(v.s)

RECURSIVE dumps_pairs(_)
dumps_pairs(m) ==
    IF m = <<>> THEN <<>>
    ELSE quote(Head(m)[1]) \o <<":", " ">> \o dumps_value(Head(m)[2])
         \o (IF Tail(m) = <<>> THEN <<>> ELSE <<",", " ">>)
         \o dumps_pairs(Tail(m))

dumps_dict(m) == <<"{">> \o dumps_pairs(m) \o <<"}">>

IntPieces == {ToString(n) : n \in 0..MaxInt}

int_of(c) == CHOOSE n \in 0..MaxInt : ToString(n) = c

\* dict item assignment: m[key] = v
dict_set(m, key, v) ==
    IF \E i \in DOMAIN m : m[i][1] = key
    THEN LET i == CHOOSE j \in DOMAIN m : m[j][1] = key
         IN  SubSeq(m, 1, i - 1) \o << <<key, v>> >> \o SubSeq(m, i + 1, Len(m))
    ELSE Append(m, <<key, v>>)

\* merged.update(updates)
RECURSIVE dict_update(_, _)
dict_update(merged, updates) ==
    IF updates = <<>> THEN merged
    ELSE dict_update(dict_set(merged, Head(updates)[1], Head(updates)[2]),
                     Tail(updates))

\* The value that a token spells: a str or an int
token_value(tok) ==
    IF tok.kind = "str" THEN [s |-> tok.v] ELSE [n |-> int_of(tok.v[1])]

\* The object of str and int values that the tokens T spell, or the ValueError
dict_of_tokens(T) ==
    LET n == Len(T)
        m == (n - 1) \div 4
        ok == /\ n >= 2
              /\ is_piece(T[1], "{")
              /\ is_piece(T[n], "}")
              /\ n > 2 => (n - 1) % 4 = 0
              /\ n > 2 => \A g \in 0..(m - 1) :
                            /\ T[2 + 4 * g].kind = "str"
                            /\ is_piece(T[3 + 4 * g], ":")
                            /\ \/ T[4 + 4 * g].kind = "str"
                               \/ /\ T[4 + 4 * g].kind = "piece"
                                  /\ T[4 + 4 * g].v[1] \in IntPieces
                            /\ g < m - 1 => is_piece(T[5 + 4 * g], ",")
        items == [g \in 1..m |-> <<T[4 * g - 2].v, token_value(T[4 * g])>>]
    IN  [ok |-> ok, val |-> IF ok THEN dict_update(<<>>, items) ELSE <<>>]

\* json.loads of a text that should hold an object of str and int values
loads_dict(txt) == dict_of_tokens(tokens(txt))

\* The table crawl_state: [cols |-> its columns ({}: no table), rows |-> its
\* rows].  Key-value layout: rows maps k to v.  Legacy layout: rows maps id to
\* [queue_json, visited_json, meta_json].  NULL and '' are both <<>>.
KvCols == {"k", "v", "updated_at"}

RowCols == {"id", "queue_json", "visited_json", "meta_json", "updated_at"}

NullRow == [queue_json |-> <<>>, visited_json |-> <<>>, meta_json |-> <<>>]

\* ensure_state_table raises RuntimeError("Unknown crawl_state schema")
unknown_schema(t) == t.cols # {} /\ ~ ({"k", "v"} \subseteq t.cols) /\ "id" \notin t.cols

\* ensure_state_table: the table after it, when it does not raise
ensure_state_table(t) ==
    IF t.cols = {} THEN [cols |-> KvCols, rows |-> <<>>]
    ELSE IF {"k", "v"} \subseteq t.cols
    THEN [t EXCEPT !.cols = @ \cup {"updated_at"}]
    ELSE IF "id" \in t.cols
    THEN [cols |-> t.cols \cup RowCols,
          rows |-> IF 1 \in DOMAIN t.rows THEN t.rows ELSE <<NullRow>>]
    ELSE t

mode_of(t) ==
    IF {"k", "v"} \subseteq t.cols THEN "kv"
    ELSE IF "id" \in t.cols THEN "row" ELSE "unknown"

kv_get(t, k) == IF k \in DOMAIN t.rows THEN t.rows[k] ELSE <<>>

kv_set(t, k, v) ==
    [t EXCEPT !.rows = [x \in DOMAIN t.rows \cup {k} |->
                            IF x = k THEN v ELSE t.rows[x]]]

row_get(t) == IF 1 \in DOMAIN t.rows THEN t.rows[1] ELSE NullRow

row_set(t, q, v, m) ==
    [t EXCEPT !.rows = <<[queue_json |-> q, visited_json |-> v, meta_json |-> m]>>]

\* x or default, for texts
or_default(x, dflt) == IF x = <<>> THEN dflt ELSE x

\* [str(x) for x in l if x]
non_empty(l) == SelectSeq(l, LAMBDA x : x # <<>>)

\* load_state, when ensure_state_table does not raise: the table after it
\* and the returned queue_list, visited_set and meta
load_state(t) ==
    LET e == ensure_state_table(t)
        m == mode_of(e)
        r == row_get(e)
        qj == or_default(IF m = "kv" THEN kv_get(e, "queue_json")
                         ELSE r.queue_json, <<"[", "]">>)
        vj == or_default(IF m = "kv" THEN kv_get(e, "visited_json")
                         ELSE r.visited_json, <<"[", "]">>)
        mj == or_default(IF m = "kv" THEN kv_get(e, "meta_json")
                         ELSE r.meta_json, <<"{", "}">>)
        visited_list == non_empty(loads_list(vj).val)
    IN  [table |-> e,
         queue_list |-> non_empty(loads_list(qj).val),
         visited_set |-> {visited_list[i] : i \in DOMAIN visited_list},
         meta |-> loads_dict(mj).val]

\* save_state, when ensure_state_table does not raise, where visited_list is
\* list(visited_set): the table after it (committed)
save_state(t, queue_list, visited_list, meta) ==
    LET e == ensure_state_table(t)
        qj == dumps_list(queue_list)
        vj == dumps_list(visited_list)
        mj == dumps_dict(meta)
    IN  IF mode_of(e) = "kv"
        THEN kv_set(kv_set(kv_set(e, "queue_json", qj),
                           "visited_json", vj), "meta_json", mj)
        ELSE row_set(e, qj, vj, mj)

\* clear_state
clear_state(t) == save_state(t, <<>>, <<>>, <<>>)

\* The orders in which list(visited_set) can enumerate a set
RECURSIVE Orders(_)
Orders(S) ==
    IF S = {} THEN {<<>>}
    ELSE UNION {{<<x>> \o o : o \in Orders(S \ {x})} : x \in S}

MaxQueue == 2

MaxVisited == 2

\* Ids with the characters that JSON escapes or gives a meaning to
CkIds == {<<"a">>, <<"a", "\\", "\"">>, <<"\n">>, <<",", " ", "]">>}

CkQueues == UNION {[1..n -> CkIds] : n \in 0..MaxQueue}

CkVisited == {S \in SUBSET CkIds : Cardinality(S) <= MaxVisited}

CkMetas ==
    {<<>>,
     << <<(<<"seed">>), [s |-> <<"a", "\"">>]>>,
        <<(<<"total_players">>), [n |-> 3]>>,
        <<(<<"target_patches">>), [s |-> <<"16.1", ",", "16.2">>]>> >>,
     << <<(<<"total_players">>), [n |-> 4]>> >>}

\* The tables an existing database file can hold before first use
CkTables ==
    {[cols |-> {}, rows |-> <<>>],
     [cols |-> KvCols, rows |-> <<>>],
     [cols |-> {"k", "v"}, rows |-> <<>>],
     [cols |-> RowCols, rows |-> <<NullRow>>],
     [cols |-> {"id"}, rows |-> <<>>],
     [cols |-> {"id", "queue_json"},
      rows |-> <<[NullRow EXCEPT !.queue_json = dumps_list(<< <<"a">> >>)]>>],
     [cols |-> {"x"}, rows |-> <<>>]}

CkInit ==
    /\ crawl_state \in CkTables
    /\ ck_saved = <<>>
    /\ ck_loaded = <<>>
    /\ ck_raised = FALSE

CkParked ==
    /\ crawl_state = [cols |-> KvCols, rows |-> <<>>]
    /\ ck_saved = <<>>
    /\ ck_loaded = <<>>
    /\ ck_raised = FALSE

\* A call of save_state(con, queue_list, visited_set, meta)
SaveState ==
    \E q \in CkQueues, V \in CkVisited, m \in CkMetas :
      \E o \in Orders(V) :
        IF unknown_schema(crawl_state)
        THEN /\ ck_raised' = TRUE
             /\ UNCHANGED <<crawl_state, ck_saved, ck_loaded>>
        ELSE /\ crawl_state' = save_state(crawl_state, q, o, m)
             /\ ck_saved' = <<[queue_list |-> q, visited_set |-> V, meta |-> m]>>
             /\ ck_loaded' = <<>>
             /\ ck_raised' = FALSE

\* A call of load_state(con)
LoadState ==
    IF unknown_schema(crawl_state)
    THEN /\ ck_raised' = TRUE
         /\ UNCHANGED <<crawl_state, ck_saved, ck_loaded>>
    ELSE LET r == load_state(crawl_state)
         IN  /\ crawl_state' = r.table
             /\ ck_loaded' = <<[queue_list |-> r.queue_list,
                                visited_set |-> r.visited_set,
                                meta |-> r.meta]>>
             /\ ck_raised' = FALSE
             /\ UNCHANGED ck_saved

\* A call of clear_state(con)
ClearState ==
    IF unknown_schema(crawl_state)
    THEN /\ ck_raised' = TRUE
         /\ UNCHANGED <<crawl_state, ck_saved, ck_loaded>>
    ELSE /\ crawl_state' = clear_state(crawl_state)
         /\ ck_saved' = <<[queue_list |-> <<>>, visited_set |-> {}, meta |-> <<>>]>>
         /\ ck_loaded' = <<>>
         /\ ck_raised' = FALSE

CkNext ==
    \/ SaveState /\ UNCHANGED <<clientVars, aggVars, crawlVars, guessVars, recVars, storeVars, wilsonVars>>
    \/ LoadState /\ UNCHANGED <<clientVars, aggVars, crawlVars, guessVars, recVars, storeVars, wilsonVars>>
    \/ ClearState /\ UNCHANGED <<clientVars, aggVars, crawlVars, guessVars, recVars, storeVars, wilsonVars>>

(***************************************************************************)
(* The graph crawler: collector_graph.py, main().  The clock is not        *)
(* modelled: every timestamp the crawler writes is 0.                      *)
(***************************************************************************)
\* The upstream API: the responses to match-id listing, match detail and
\* rank-entries lookup.  Match "m2" is listed for player a only.
Seed == <<"a">>

Puuids == {<<"a">>, <<"b">>, <<"c">>}

ApiMatchIds ==
    [p \in Puuids |->
        CASE p = <<"a">> -> <<"m1", "m2">>
          [] p = <<"b">> -> <<"m1", "m3">>
          [] OTHER -> <<>>]

ApiMatch ==
    [mid \in {"m1", "m2", "m3"} |->
        CASE mid = "m1" -> [queueId |-> 420, patch |-> "16.2",
                            participants |-> << <<"a">>, <<"b">> >>]
          [] mid = "m2" -> [queueId |-> 420, patch |-> "16.2",
                            participants |-> << <<"a">>, <<"c">> >>]
          [] OTHER -> [queueId |-> 420, patch |-> "16.1",
                       participants |-> << <<"b">>, <<"c">> >>]]

ApiTier ==
    [p \in Puuids |->
        CASE p = <<"a">> -> "GOLD"
          [] p = <<"b">> -> NULL
          [] OTHER -> "DIAMOND"]

\* What a call of the client can end with: a JSON body, RuntimeError after
\* the retries or on another status ("fail"), RuntimeError on 401/403
ApiOutcomes == {"ok", "fail", "auth"}

TIER_ORDER ==
    <<"IRON", "BRONZE", "SILVER", "GOLD", "PLATINUM", "EMERALD", "DIAMOND",
      "MASTER", "GRANDMASTER", "CHALLENGER">>

\* tier_to_score without division: the index in TIER_ORDER, 0 for None
tier_to_score(t) ==
    IF \E i \in DOMAIN TIER_ORDER : TIER_ORDER[i] = t
    THEN CHOOSE i \in DOMAIN TIER_ORDER : TIER_ORDER[i] = t ELSE 0

\* Twice the median of a non-empty set-with-counts of scores, given sorted
median2(s) ==
    IF Len(s) % 2 = 1 THEN 2 * s[(Len(s) + 1) \div 2]
    ELSE s[Len(s) \div 2] + s[Len(s) \div 2 + 1]

RECURSIVE sorted(_)
sorted(s) ==
    IF s = <<>> THEN <<>>
    ELSE LET i == CHOOSE x \in DOMAIN s : \A y \in DOMAIN s : s[x] <= s[y]
         IN  <<s[i]>> \o sorted([j \in 1..(Len(s) - 1) |->
                                    IF j < i THEN s[j] ELSE s[j + 1]])

\* score_to_tier_label: the first tier of TIER_ORDER nearest to the score
score_to_tier_label(score2) ==
    LET gap(i) == IF 2 * i >= score2 THEN 2 * i - score2 ELSE score2 - 2 * i
        best == CHOOSE i \in DOMAIN TIER_ORDER :
                    \A j \in DOMAIN TIER_ORDER :
                        gap(i) < gap(j) \/ (gap(i) = gap(j) /\ i <= j)
    IN  TIER_ORDER[best]

COLLECTOR_META_KEYS ==
    {<<"total_players">>, <<"saved_matches">>, <<"explored_non_target">>,
     <<"target_patches">>, <<"updated_at">>}

\* meta.get(key) for an int and for a str value, with the defaults 0 and ""
meta_int(meta, key) ==
    IF \E i \in DOMAIN meta : meta[i][1] = key /\ "n" \in DOMAIN meta[i][2]
    THEN meta[CHOOSE i \in DOMAIN meta : meta[i][1] = key][2].n ELSE 0

meta_str(meta, key) ==
    IF \E i \in DOMAIN meta : meta[i][1] = key /\ "s" \in DOMAIN meta[i][2]
    THEN meta[CHOOSE i \in DOMAIN meta : meta[i][1] = key][2].s ELSE <<>>

\* latest_two_patches_major_minor(): the newest patch p1 and the one before it
latest_two_patches == <<"16.2", "16.1">>

\* target_patches, from --target_patch latest, latest2 or an explicit patch
target_patches ==
    IF args.target_patch = "latest" THEN {latest_two_patches[1]}
    ELSE IF args.target_patch = "latest2"
    THEN {latest_two_patches[1], latest_two_patches[2]}
    ELSE {args.target_patch}

\* ",".join(sorted(target_patches))
curr_tp ==
    IF args.target_patch = "latest2"
    THEN <<latest_two_patches[2], ",", latest_two_patches[1]>>
    ELSE <<CHOOSE p \in target_patches : TRUE>>

collector_meta(tp, sm, ex) ==
    << <<(<<"total_players">>), [n |-> tp]>>,
       <<(<<"saved_matches">>), [n |-> sm]>>,
       <<(<<"explored_non_target">>), [n |-> ex]>>,
       <<(<<"target_patches">>), [s |-> curr_tp]>>,
       <<(<<"updated_at">>), [n |-> 0]>> >>

\* _save_state_merge_meta, with visited_list = list(visited_set)
save_state_merge_meta(t, queue_list, visited_list, collector_updates) ==
    LET l == load_state(t)
    IN  save_state(l.table, queue_list, visited_list,
                   dict_update(l.meta, collector_updates))

\* {k: v for k, v in old_meta.items() if k not in COLLECTOR_META_KEYS}
RECURSIVE not_collector_keys(_)
not_collector_keys(m) ==
    IF m = <<>> THEN <<>>
    ELSE (IF Head(m)[1] \in COLLECTOR_META_KEYS THEN <<>> ELSE <<Head(m)>>)
         \o not_collector_keys(Tail(m))

\* _reset_collector_state: the table after it
reset_collector_state(t) ==
    LET old_meta == load_state(t).meta
        kept == not_collector_keys(old_meta)
    IN  save_state_merge_meta(t, <<Seed>>, <<>>,
                              dict_update(kept, collector_meta(0, 0, 0)))

MaxSessions == 2

MaxFaults == 1

MaxInterrupts == 1

\* The tables the crawler writes, without the columns it never reads back
EmptyDb ==
    [players |-> <<>>, matches |-> {}, participants |-> {},
     match_participant_rank |-> {}, match_tier |-> <<>>]

NoLoc ==
    [puuid |-> <<>>, match_ids |-> <<>>, exist_mids |-> {}, summoner_id |-> NULL,
     tier |-> NULL, non_target_used |-> 0, mid |-> NULL]

CrawlInit ==
    /\ args \in [target_patch : {"16.2"}, max_players : {2, 5},
                 checkpoint_every_players : {1, 2}, commit_every : {1, 2},
                 reset_state : BOOLEAN, explore_non_target : {1},
                 explore_limit : {0, 2}, match_tier_min_known : {1}]
    /\ cr_pc = "boot"
    /\ status = "none"
    /\ sessions = 0
    /\ queue = <<>>
    /\ seen = {}
    /\ total_players = 0
    /\ saved_matches = 0
    /\ explored_non_target = 0
    /\ since_commit = 0
    /\ loc = NoLoc
    /\ db = EmptyDb
    /\ wdb = EmptyDb
    /\ hist = [faults |-> 0, interrupts |-> 0, auth |-> FALSE,
               after_auth |-> FALSE, failed |-> "none",
               discarded |-> FALSE]

CrawlParked ==
    /\ args = [target_patch |-> "16.2", max_players |-> 2,
               checkpoint_every_players |-> 1, commit_every |-> 1,
               reset_state |-> FALSE, explore_non_target |-> 1,
               explore_limit |-> 2, match_tier_min_known |-> 1]
    /\ cr_pc = "boot"
    /\ status = "none"
    /\ sessions = 0
    /\ queue = <<>>
    /\ seen = {}
    /\ total_players = 0
    /\ saved_matches = 0
    /\ explored_non_target = 0
    /\ since_commit = 0
    /\ loc = NoLoc
    /\ db = EmptyDb
    /\ wdb = EmptyDb
    /\ hist = [faults |-> 0, interrupts |-> 0, auth |-> FALSE,
               after_auth |-> FALSE, failed |-> "none",
               discarded |-> FALSE]

\* A faulty variant of the checkpoint, which commits and saves nothing
checkpoint_save_skipped(w, qv, sn, tp, sm, ex) ==
    /\ db' = w
    /\ wdb' = w
    /\ UNCHANGED crawl_state

\* con.commit(); checkpoint_save(): the pending writes w are committed and
\* the frontier, the visited set and the counters are saved
checkpoint_save(w, qv, sn, tp, sm, ex) ==
    /\ db' = w
    /\ wdb' = w
    /\ \E o \in Orders(sn) :
         crawl_state' = save_state_merge_meta(crawl_state, qv, o,
                                              collector_meta(tp, sm, ex))

\* A faulty variant of the cadence, which never takes a checkpoint
checkpoint_cadence_never(w, qv, sm, ex) ==
    wdb' = w /\ UNCHANGED <<db, crawl_state>>

\* if total_players % checkpoint_every_players == 0: commit and checkpoint
checkpoint_cadence(w, qv, sm, ex) ==
    IF total_players % args.checkpoint_every_players = 0
    THEN checkpoint_save(w, qv, seen, total_players, sm, ex)
    ELSE wdb' = w /\ UNCHANGED <<db, crawl_state>>

\* The session ends: after the loop, or in one of the except clauses
Exit(st) ==
    /\ checkpoint_save(wdb, queue, seen, total_players, saved_matches,
                       explored_non_target)
    /\ status' = st
    /\ cr_pc' = "exit"

\* A call of the client raised RuntimeError, which main() does not catch
\* inside the loop: except Exception commits, checkpoints and re-raises
Raised(call, out) ==
    /\ Exit("ERROR")
    /\ hist' = [hist EXCEPT !.faults = @ + 1,
                            !.auth = @ \/ out = "auth",
                            !.failed = IF out = "fail" THEN call ELSE @]
    /\ UNCHANGED <<queue, seen, total_players, saved_matches,
                   explored_non_target, since_commit, loc>>

\* main() up to the while loop: --reset_state, or load_state and resume
StartSession ==
    /\ cr_pc \in {"boot", "exit"}
    /\ sessions < MaxSessions
    /\ sessions' = sessions + 1
    /\ LET l == load_state(crawl_state)
           prev_tp == meta_str(l.meta, <<"target_patches">>)
           auto_reset == args.target_patch \in {"latest", "latest2"}
       IN  IF args.reset_state
           THEN /\ crawl_state' = reset_collector_state(crawl_state)
                /\ queue' = <<Seed>>
                /\ seen' = {}
                /\ total_players' = 0
                /\ saved_matches' = 0
                /\ explored_non_target' = 0
           ELSE IF auto_reset /\ prev_tp # <<>> /\ prev_tp # curr_tp
           THEN /\ crawl_state' = reset_collector_state(l.table)
                /\ queue' = <<Seed>>
                /\ seen' = {}
                /\ total_players' = 0
                /\ saved_matches' = 0
                /\ explored_non_target' = 0
           ELSE /\ crawl_state' = l.table
                /\ queue' = IF l.queue_list # <<>> THEN l.queue_list ELSE <<Seed>>
                /\ seen' = l.visited_set
                /\ total_players' = meta_int(l.meta, <<"total_players">>)
                /\ saved_matches' = meta_int(l.meta, <<"saved_matches">>)
                /\ explored_non_target' = meta_int(l.meta, <<"explored_non_target">>)
    /\ since_commit' = 0
    /\ loc' = NoLoc
    /\ wdb' = db
    /\ status' = "running"
    /\ cr_pc' = "loop"
    /\ hist' = [hist EXCEPT !.auth = FALSE, !.after_auth = FALSE,
                            !.failed = "none", !.discarded = FALSE]
    /\ UNCHANGED <<args, db>>

\* A faulty variant of the loop, which visits a popped id whether or not it
\* is in the visited set
LoopTop_revisit ==
    /\ cr_pc = "loop"
    /\ IF queue # <<>> /\ total_players < args.max_players
       THEN /\ queue' = Tail(queue)
            /\ seen' = seen \cup {Head(queue)}
            /\ total_players' = total_players + 1
            /\ loc' = [NoLoc EXCEPT !.puuid = Head(queue)]
            /\ cr_pc' = "match_ids"
            /\ hist' = [hist EXCEPT !.after_auth = @ \/ hist.auth]
            /\ UNCHANGED <<db, wdb, crawl_state, status>>
       ELSE /\ Exit("DONE")
            /\ UNCHANGED <<queue, seen, total_players, loc, hist>>
    /\ UNCHANGED <<args, sessions, saved_matches, explored_non_target,
                   since_commit>>

\* A faulty variant of the loop, which does not test the cap on the players
LoopTop_uncapped ==
    /\ cr_pc = "loop"
    /\ IF queue # <<>>
       THEN /\ queue' = Tail(queue)
            /\ IF Head(queue) \in seen
               THEN /\ hist' = [hist EXCEPT !.discarded = TRUE]
                    /\ UNCHANGED <<seen, total_players, loc, cr_pc>>
               ELSE /\ seen' = seen \cup {Head(queue)}
                    /\ total_players' = total_players + 1
                    /\ loc' = [NoLoc EXCEPT !.puuid = Head(queue)]
                    /\ cr_pc' = "match_ids"
                    /\ hist' = [hist EXCEPT !.after_auth = @ \/ hist.auth]
            /\ UNCHANGED <<db, wdb, crawl_state, status>>
       ELSE /\ Exit("DONE")
            /\ UNCHANGED <<queue, seen, total_players, loc, hist>>
    /\ UNCHANGED <<args, sessions, saved_matches, explored_non_target,
                   since_commit>>

\* while q and total_players < args.max_players: puuid = q.popleft(); ...
\* and, when the loop ends, con.commit(); checkpoint_save()
LoopTop ==
    /\ cr_pc = "loop"
    /\ IF queue # <<>> /\ total_players < args.max_players
       THEN /\ queue' = Tail(queue)
            /\ IF Head(queue) \in seen
               THEN /\ hist' = [hist EXCEPT !.discarded = TRUE]
                    /\ UNCHANGED <<seen, total_players, loc, cr_pc>>
               ELSE /\ seen' = seen \cup {Head(queue)}
                    /\ total_players' = total_players + 1
                    /\ loc' = [NoLoc EXCEPT !.puuid = Head(queue)]
                    /\ cr_pc' = "match_ids"
                    /\ hist' = [hist EXCEPT !.after_auth = @ \/ hist.auth]
            /\ UNCHANGED <<db, wdb, crawl_state, status>>
       ELSE /\ Exit("DONE")
            /\ UNCHANGED <<queue, seen, total_players, loc, hist>>
    /\ UNCHANGED <<args, sessions, saved_matches, explored_non_target,
                   since_commit>>

\* match_ids = rc.match_ids(puuid, ...), and the branch if not match_ids
CallMatchIds ==
    /\ cr_pc = "match_ids"
    /\ \E out \in ApiOutcomes :
         /\ out # "ok" => hist.faults < MaxFaults
         /\ IF out # "ok" THEN Raised("match_ids", out)
            ELSE IF ApiMatchIds[loc.puuid] = <<>>
            THEN /\ checkpoint_cadence(wdb, queue, saved_matches,
                                       explored_non_target)
                 /\ cr_pc' = "loop"
                 /\ UNCHANGED <<queue, seen, total_players, saved_matches,
                                explored_non_target, since_commit, loc,
                                status, hist>>
            ELSE /\ loc' = [loc EXCEPT
                              !.match_ids = ApiMatchIds[loc.puuid],
                              !.exist_mids =
                                  {ApiMatchIds[loc.puuid][i] :
                                      i \in DOMAIN ApiMatchIds[loc.puuid]}
                                  \cap wdb.matches]
                 /\ cr_pc' = "summoner"
                 /\ UNCHANGED <<queue, seen, total_players, saved_matches,
                                explored_non_target, since_commit, db, wdb,
                                crawl_state, status, hist>>
    /\ UNCHANGED <<args, sessions>>

\* upsert_player(con, puuid, summoner_id, tier, ...)
upsert_player(w, p, sid, t) ==
    [w EXCEPT !.players =
        [x \in DOMAIN w.players \cup {p} |->
            IF x = p THEN [summoner_id |-> sid, tier |-> t] ELSE w.players[x]]]

\* summ = rc.summoner_by_puuid(puuid), up to the test of need_refresh_rank;
\* whether a cached rank is older than rank_refresh_hours is up to the clock
CallSummoner ==
    /\ cr_pc = "summoner"
    /\ \E out \in ApiOutcomes, stale \in BOOLEAN :
         /\ out # "ok" => hist.faults < MaxFaults
         /\ IF out # "ok" THEN Raised("summoner", out)
            ELSE LET need_refresh_rank ==
                         \/ loc.puuid \notin DOMAIN wdb.players
                         \/ wdb.players[loc.puuid].tier = NULL
                         \/ stale
                 IN  /\ IF need_refresh_rank
                        THEN /\ cr_pc' = "league"
                             /\ wdb' = wdb
                        ELSE /\ cr_pc' = "matches"
                             /\ wdb' = upsert_player(wdb, loc.puuid, "sid", NULL)
                     /\ loc' = [loc EXCEPT !.summoner_id = "sid"]
                     /\ UNCHANGED <<queue, seen, total_players, saved_matches,
                                    explored_non_target, since_commit, db,
                                    crawl_state, status, hist>>
    /\ UNCHANGED <<args, sessions>>

\* try: entries = rc.league_entries_by_summoner(...) except Exception: ...
\* and upsert_player
CallLeague ==
    /\ cr_pc = "league"
    /\ \E out \in ApiOutcomes :
         /\ out # "ok" => hist.faults < MaxFaults
         /\ LET t == IF out = "ok" THEN ApiTier[loc.puuid] ELSE NULL
            IN  /\ loc' = [loc EXCEPT !.tier = t]
                /\ wdb' = upsert_player(wdb, loc.puuid, loc.summoner_id, t)
         /\ hist' = IF out = "ok" THEN hist
                    ELSE [hist EXCEPT !.faults = @ + 1,
                                      !.auth = @ \/ out = "auth"]
    /\ cr_pc' = "matches"
    /\ UNCHANGED <<args, sessions, queue, seen, total_players, saved_matches,
                   explored_non_target, since_commit, db, crawl_state, status>>

\* for mid in match_ids: if mid in exist_mids: continue, and, after the last
\* match, the checkpoint cadence at the end of the loop body
NextMatch ==
    /\ cr_pc = "matches"
    /\ IF loc.match_ids = <<>>
       THEN /\ checkpoint_cadence(wdb, queue, saved_matches, explored_non_target)
            /\ cr_pc' = "loop"
            /\ UNCHANGED loc
       ELSE /\ loc' = [loc EXCEPT !.match_ids = Tail(@),
                                  !.mid = Head(loc.match_ids)]
            /\ cr_pc' = IF Head(loc.match_ids) \in loc.exist_mids
                        THEN "matches" ELSE "detail"
            /\ UNCHANGED <<db, wdb, crawl_state>>
    /\ UNCHANGED <<args, sessions, queue, seen, total_players, saved_matches,
                   explored_non_target, since_commit, status, hist>>

\* The participants of a match that are not in seen, in order
unseen(parts, sn) == SelectSeq(parts, LAMBDA p : p \notin sn)

\* get_player_rank_cached(pp)[0]
rank_cached(w, pp) == IF pp \in DOMAIN w.players THEN w.players[pp].tier ELSE NULL

\* A faulty variant of the step, which explores without testing explore_limit
CallMatch_unlimited ==
    /\ cr_pc = "detail"
    /\ \E out \in ApiOutcomes :
         /\ out # "ok" => hist.faults < MaxFaults
         /\ IF out # "ok" THEN Raised("match", out)
            ELSE LET info == ApiMatch[loc.mid]
                     parts == info.participants
                 IN  /\ IF info.queueId # 420
                        THEN /\ cr_pc' = "matches"
                             /\ UNCHANGED <<wdb, queue, loc, explored_non_target>>
                        ELSE IF info.patch \in target_patches
                        THEN /\ wdb' = [wdb EXCEPT
                                  !.matches = @ \cup {loc.mid},
                                  !.match_participant_rank = @ \cup
                                      {<<loc.mid, parts[i], rank_cached(wdb, parts[i])>> :
                                          i \in DOMAIN parts}]
                             /\ cr_pc' = "participants"
                             /\ UNCHANGED <<queue, loc, explored_non_target>>
                        ELSE IF args.explore_non_target = 1
                        THEN /\ queue' = queue \o unseen(parts, seen)
                             /\ loc' = [loc EXCEPT !.non_target_used = @ + 1]
                             /\ explored_non_target' = explored_non_target + 1
                             /\ cr_pc' = "matches"
                             /\ UNCHANGED wdb
                        ELSE /\ cr_pc' = "matches"
                             /\ UNCHANGED <<wdb, queue, loc, explored_non_target>>
                     /\ UNCHANGED <<seen, total_players, saved_matches,
                                    since_commit, db, crawl_state, status, hist>>
    /\ UNCHANGED <<args, sessions>>

\* m = rc.match(mid), the queue and patch tests, and for a target patch
\* insert_match and the rank rows of the participants; for another patch the
\* exploration of its participants
CallMatch ==
    /\ cr_pc = "detail"
    /\ \E out \in ApiOutcomes :
         /\ out # "ok" => hist.faults < MaxFaults
         /\ IF out # "ok" THEN Raised("match", out)
            ELSE LET info == ApiMatch[loc.mid]
                     parts == info.participants
                 IN  /\ IF info.queueId # 420
                        THEN /\ cr_pc' = "matches"
                             /\ UNCHANGED <<wdb, queue, loc, explored_non_target>>
                        ELSE IF info.patch \in target_patches
                        THEN /\ wdb' = [wdb EXCEPT
                                  !.matches = @ \cup {loc.mid},
                                  !.match_participant_rank = @ \cup
                                      {<<loc.mid, parts[i], rank_cached(wdb, parts[i])>> :
                                          i \in DOMAIN parts}]
                             /\ cr_pc' = "participants"
                             /\ UNCHANGED <<queue, loc, explored_non_target>>
                        ELSE IF /\ args.explore_non_target = 1
                                /\ loc.non_target_used < args.explore_limit
                        THEN /\ queue' = queue \o unseen(parts, seen)
                             /\ loc' = [loc EXCEPT !.non_target_used = @ + 1]
                             /\ explored_non_target' = explored_non_target + 1
                             /\ cr_pc' = "matches"
                             /\ UNCHANGED wdb
                        ELSE /\ cr_pc' = "matches"
                             /\ UNCHANGED <<wdb, queue, loc, explored_non_target>>
                     /\ UNCHANGED <<seen, total_players, saved_matches,
                                    since_commit, db, crawl_state, status, hist>>
    /\ UNCHANGED <<args, sessions>>

\* for p in parts: insert_participant, the score of its cached rank, its
\* enqueueing; upsert_match_tier; the counters; the commit every commit_every
PersistParticipants ==
    /\ cr_pc = "participants"
    /\ LET parts == ApiMatch[loc.mid].participants
           known == SelectSeq(parts, LAMBDA p : tier_to_score(rank_cached(wdb, p)) > 0)
           match_scores == [i \in DOMAIN known |-> tier_to_score(rank_cached(wdb, known[i]))]
           mt_label == IF Len(known) >= args.match_tier_min_known /\ known # <<>>
                       THEN score_to_tier_label(median2(sorted(match_scores)))
                       ELSE NULL
           w == [wdb EXCEPT
                   !.participants = @ \cup {<<loc.mid, parts[i]>> : i \in DOMAIN parts},
                   !.match_tier = [x \in DOMAIN @ \cup {loc.mid} |->
                                      IF x = loc.mid THEN mt_label ELSE @[x]]]
       IN  /\ queue' = queue \o unseen(parts, seen)
           /\ wdb' = w
           /\ IF since_commit + 1 >= args.commit_every
              THEN db' = w /\ since_commit' = 0
              ELSE UNCHANGED db /\ since_commit' = since_commit + 1
    /\ saved_matches' = saved_matches + 1
    /\ cr_pc' = "matches"
    /\ UNCHANGED <<args, sessions, seen, total_players, explored_non_target,
                   loc, crawl_state, status, hist>>

\* KeyboardInterrupt inside the loop: commit, checkpoint, return
Interrupt ==
    /\ cr_pc \in {"loop", "match_ids", "summoner", "league", "matches",
                  "detail", "participants"}
    /\ hist.interrupts < MaxInterrupts
    /\ Exit("INTERRUPTED")
    /\ hist' = [hist EXCEPT !.interrupts = @ + 1]
    /\ UNCHANGED <<args, sessions, queue, seen, total_players, saved_matches,
                   explored_non_target, since_commit, loc>>

CrawlNext ==
    \/ StartSession /\ UNCHANGED <<clientVars, aggVars, ck_saved, ck_loaded, ck_raised, guessVars, recVars, storeVars, wilsonVars>>
    \/ LoopTop /\ UNCHANGED <<clientVars, aggVars, ck_saved, ck_loaded, ck_raised, guessVars, recVars, storeVars, wilsonVars>>
    \/ CallMatchIds /\ UNCHANGED <<clientVars, aggVars, ck_saved, ck_loaded, ck_raised, guessVars, recVars, storeVars, wilsonVars>>
    \/ CallSummoner /\ UNCHANGED <<clientVars, aggVars, ck_saved, ck_loaded, ck_raised, guessVars, recVars, storeVars, wilsonVars>>
    \/ CallLeague /\ UNCHANGED <<clientVars, aggVars, ck_saved, ck_loaded, ck_raised, guessVars, recVars, storeVars, wilsonVars>>
    \/ NextMatch /\ UNCHANGED <<clientVars, aggVars, ck_saved, ck_loaded, ck_raised, guessVars, recVars, storeVars, wilsonVars>>
    \/ CallMatch /\ UNCHANGED <<clientVars, aggVars, ck_saved, ck_loaded, ck_raised, guessVars, recVars, storeVars, wilsonVars>>
    \/ PersistParticipants /\ UNCHANGED <<clientVars, aggVars, ck_saved, ck_loaded, ck_raised, guessVars, recVars, storeVars, wilsonVars>>
    \/ Interrupt /\ UNCHANGED <<clientVars, aggVars, ck_saved, ck_loaded, ck_raised, guessVars, recVars, storeVars, wilsonVars>>

\* The crawl that nothing stops, from an empty store: the loop of main() with
\* every call answered, as a function of the frontier q, the visited set sn,
\* the stored matches ms and the number n of visited players
RECURSIVE crawl_player(_, _, _, _, _, _)
crawl_player(match_ids, exist, qv, sn, ms, used) ==
    IF match_ids = <<>> THEN [queue |-> qv, matches |-> ms]
    ELSE LET info == ApiMatch[Head(match_ids)]
             more == unseen(info.participants, sn)
         IN  IF Head(match_ids) \in exist \/ info.queueId # 420
             THEN crawl_player(Tail(match_ids), exist, qv, sn, ms, used)
             ELSE IF info.patch \in target_patches
             THEN crawl_player(Tail(match_ids), exist, qv \o more, sn,
                               ms \cup {Head(match_ids)}, used)
             ELSE IF args.explore_non_target = 1 /\ used < args.explore_limit
             THEN crawl_player(Tail(match_ids), exist, qv \o more, sn, ms, used + 1)
             ELSE crawl_player(Tail(match_ids), exist, qv, sn, ms, used)

RECURSIVE crawl(_, _, _, _)
crawl(qv, sn, ms, n) ==
    IF qv = <<>> \/ n >= args.max_players THEN [seen |-> sn, matches |-> ms]
    ELSE IF Head(qv) \in sn THEN crawl(Tail(qv), sn, ms, n)
    ELSE LET match_ids == ApiMatchIds[Head(qv)]
             r == crawl_player(match_ids, {match_ids[i] : i \in DOMAIN match_ids} \cap ms, Tail(qv),
                               sn \cup {Head(qv)}, ms, 0)
         IN  crawl(r.queue, sn \cup {Head(qv)}, r.matches, n + 1)

uninterrupted == crawl(<<Seed>>, {}, {}, 0)

(***************************************************************************)
(* The recommender, recommender.py: the inference of the enemy roles.  A   *)
(* ratio is kept exact, as a numerator n over a denominator d > 0, and two *)
(* ratios are compared by cross multiplication.                            *)
(***************************************************************************)
Champs == 1..5

\* one champion's entry of dist: its games by role
Games(top, jungle, middle, bottom, utility) ==
    [r \in RoleSet |-> CASE r = "TOP" -> top
                         [] r = "JUNGLE" -> jungle
                         [] r = "MIDDLE" -> middle
                         [] r = "BOTTOM" -> bottom
                         [] OTHER -> utility]

NoGames == Games(0, 0, 0, 0, 0)

Profiles ==
    {NoGames, Games(1, 1, 0, 0, 0), Games(2, 0, 1, 1, 1), Games(0, 2, 0, 0, 0),
     Games(1, 0, 3, 0, 0), Games(0, 0, 0, 1, 2)}

EnemyInputs == {<<0>>, <<1>>, <<2, 1>>, <<3, 0, 1, 3>>, <<1, 2, 3, 4>>, <<5, 4, 3, 2, 1>>}

elems(s) == {s[i] : i \in DOMAIN s}

index(s, x) == CHOOSE i \in DOMAIN s : s[i] = x

\* the elements of s at the positions K, in the order of s
at_positions(s, K) ==
    [k \in 1..Cardinality(K) |->
        s[CHOOSE i \in K : Cardinality({j \in K : j < i}) = k - 1]]

\* [x for x in s if x not in X]
without(s, X) == at_positions(s, {i \in DOMAIN s : s[i] \notin X})

frac_gt(a, b) == a.n * b.d > b.n * a.d

frac_eq(a, b) == a.n * b.d = b.n * a.d

lex_gt(s, t) ==
    \E i \in DOMAIN s : s[i] > t[i] /\ \A j \in 1..(i - 1) : s[j] = t[j]

\* the comparison of two tuples whose first component is a ratio
key_gt(a, b) == frac_gt(a.rr, b.rr) \/ (frac_eq(a.rr, b.rr) /\ lex_gt(a.rest, b.rest))

games_in(m, role) == IF role \in DOMAIN m THEN m[role] ELSE 0

champ_total_games(m) ==
    m[ROLES[1]] + m[ROLES[2]] + m[ROLES[3]] + m[ROLES[4]] + m[ROLES[5]]

role_ratio(m, role) ==
    IF champ_total_games(m) <= 0
    THEN [n |-> 0, d |-> 1]
    ELSE [n |-> games_in(m, role), d |-> champ_total_games(m)]

\* (rr, g_r, total, -roles.index(r), -cid)
role_key(cid, d, r, roles) ==
    [rr |-> role_ratio(d[cid], r),
     rest |-> <<games_in(d[cid], r), champ_total_games(d[cid]),
                -(index(roles, r) - 1), -cid>>]

best_role_for_champ(cid, d, roles) ==
    IF champ_total_games(d[cid]) <= 0 \/ roles = <<>>
    THEN "UNKNOWN"
    ELSE CHOOSE r \in elems(roles) :
            \A o \in elems(roles) \ {r} :
                key_gt(role_key(cid, d, r, roles), role_key(cid, d, o, roles))

\* (rr, g_r, total, -cid)
champ_key(cid, d, role) ==
    [rr |-> role_ratio(d[cid], role),
     rest |-> <<games_in(d[cid], role), champ_total_games(d[cid]), -cid>>]

\* step 1 of a round: role_winner[role]
role_winner(role, champs, d) ==
    CHOOSE c \in elems(champs) :
        \A o \in elems(champs) \ {c} :
            key_gt(champ_key(c, d, role), champ_key(o, d, role))

\* step 2 of a round: champ_wins[cid]
champ_wins(cid, champs, roles, d) ==
    {r \in elems(roles) : role_winner(r, champs, d) = cid}

\* A faulty variant of step 3, which gives a role to a champion without data
chosen_role_nodata(cid, won, roles, d) ==
    CHOOSE r \in won :
        \A o \in won \ {r} :
            key_gt(role_key(cid, d, r, roles), role_key(cid, d, o, roles))

chosen_role_least(cid, won, roles, d) ==
    IF champ_total_games(d[cid]) <= 0
    THEN "UNKNOWN"
    ELSE CHOOSE r \in won :
            \A o \in won \ {r} :
                key_gt(role_key(cid, d, o, roles), role_key(cid, d, r, roles))

\* step 3 of a round: the role a champion takes among the roles it won
chosen_role(cid, won, roles, d) ==
    IF champ_total_games(d[cid]) <= 0
    THEN "UNKNOWN"
    ELSE CHOOSE r \in won :
            \A o \in won \ {r} :
                key_gt(role_key(cid, d, r, roles), role_key(cid, d, o, roles))

\* step 3 of a round: newly_assigned, as a mapping
newly_assigned(champs, roles, asg, d) ==
    [c \in {x \in elems(champs) : /\ champ_wins(x, champs, roles, d) # {}
                                  /\ x \notin DOMAIN asg} |->
        chosen_role(c, champ_wins(c, champs, roles, d), roles, d)]

\* assigned after assigned[cid] = role for every pair of na
assign(asg, na) ==
    [c \in DOMAIN asg \cup DOMAIN na |-> IF c \in DOMAIN na THEN na[c] ELSE asg[c]]

roles_kept(roles, na) == roles

\* step 4 of a round: remaining_roles without the roles just assigned
roles_left(roles, na) == without(roles, {na[c] : c \in DOMAIN na})

GuardLimit == 50

GuessInit ==
    /\ enemy_ids \in EnemyInputs
    /\ dist \in {d \in [Champs -> Profiles] :
                    \A c \in Champs \ elems(enemy_ids) : d[c] = NoGames}
    /\ g_pc = "start"
    /\ ids = <<>>
    /\ remaining_champs = <<>>
    /\ remaining_roles = <<>>
    /\ assigned = <<>>
    /\ guard = 0
    /\ out2 = <<>>

GuessParked ==
    /\ enemy_ids = <<>>
    /\ dist = [c \in Champs |-> NoGames]
    /\ g_pc = "done"
    /\ ids = <<>>
    /\ remaining_champs = <<>>
    /\ remaining_roles = <<>>
    /\ assigned = <<>>
    /\ guard = 0
    /\ out2 = <<>>

\* the non-zero ids, each kept at its first occurrence
unique_ids(s) ==
    at_positions(s, {i \in DOMAIN s :
                        s[i] # 0 /\ \A j \in 1..(i - 1) : s[j] # s[i]})

\* the head of guess_enemy_roles_iterative, up to the while loop
GuessStart ==
    /\ g_pc = "start"
    /\ ids' = unique_ids(enemy_ids)
    /\ IF unique_ids(enemy_ids) = <<>>
       THEN /\ g_pc' = "done"
            /\ UNCHANGED <<remaining_champs, remaining_roles>>
       ELSE /\ g_pc' = "loop"
            /\ remaining_champs' = unique_ids(enemy_ids)
            /\ remaining_roles' = ROLES
    /\ assigned' = <<>>
    /\ guard' = 0
    /\ out2' = <<>>
    /\ UNCHANGED <<enemy_ids, dist>>

\* when no champion was newly assigned: the smallest remaining id is forced
ForcedRound(cid, role) ==
    /\ assigned' = assign(assigned, [c \in {cid} |-> role])
    /\ remaining_champs' = without(remaining_champs, {cid})
    /\ remaining_roles' = without(remaining_roles, {role})

\* steps 1 to 4 on the newly assigned pairs na
AssignRound(na) ==
    IF DOMAIN na = {}
    THEN ForcedRound(CHOOSE c \in elems(remaining_champs) :
                        \A o \in elems(remaining_champs) : c <= o,
                     best_role_for_champ(
                        CHOOSE c \in elems(remaining_champs) :
                            \A o \in elems(remaining_champs) : c <= o,
                        dist, remaining_roles))
    ELSE /\ assigned' = assign(assigned, na)
         /\ remaining_champs' = without(remaining_champs, DOMAIN na)
         /\ remaining_roles' = roles_left(remaining_roles, na)

\* one iteration of the while loop
GuessRound ==
    /\ g_pc = "loop"
    /\ remaining_champs # <<>>
    /\ remaining_roles # <<>>
    /\ guard < GuardLimit
    /\ guard' = guard + 1
    /\ AssignRound(newly_assigned(remaining_champs, remaining_roles, assigned, dist))
    /\ UNCHANGED <<enemy_ids, dist, g_pc, ids, out2>>

\* after the loop: the champions left take their best role, and out2 is built
GuessFinish ==
    /\ g_pc = "loop"
    /\ ~ (remaining_champs # <<>> /\ remaining_roles # <<>> /\ guard < GuardLimit)
    /\ assigned' = [c \in DOMAIN assigned \cup elems(remaining_champs) |->
                       IF c \in DOMAIN assigned
                       THEN assigned[c]
                       ELSE best_role_for_champ(c, dist, ROLES)]
    /\ out2' = [c \in elems(ids) |->
                   IF c \in DOMAIN assigned
                   THEN assigned[c]
                   ELSE best_role_for_champ(c, dist, ROLES)]
    /\ g_pc' = "done"
    /\ UNCHANGED <<enemy_ids, dist, ids, remaining_champs, remaining_roles, guard>>

GuessNext ==
    \/ GuessStart /\ UNCHANGED <<clientVars, aggVars, ckptVars, crawlVars, recVars, storeVars, wilsonVars>>
    \/ GuessRound /\ UNCHANGED <<clientVars, aggVars, ckptVars, crawlVars, recVars, storeVars, wilsonVars>>
    \/ GuessFinish /\ UNCHANGED <<clientVars, aggVars, ckptVars, crawlVars, recVars, storeVars, wilsonVars>>

(***************************************************************************)
(* The recommender, recommender.py: the candidates and the base rows of    *)
(* recommend_champions.  The scores only order the recommendations, so the *)
(* cut to top_n keeps any top_n of them.                                   *)
(***************************************************************************)
Row(patch, tier, role, champ_id, games, wins) ==
    [patch |-> patch, tier |-> tier, role |-> role, champ_id |-> champ_id,
     games |-> games, wins |-> wins]

\* rows of agg_champ_role; rows of tier NULL never conflict on the primary key
RowPool ==
    {Row("16.2", "EMERALD", "TOP", 1, 3, 2),
     Row("16.2", "EMERALD", "TOP", 2, 1, 0),
     Row("16.2", NULL, "TOP", 2, 1, 1),
     Row("16.1", "EMERALD", "TOP", 3, 4, 2),
     Row("16.2", "GOLD", "TOP", 3, 2, 1),
     Row("16.2", "EMERALD", "MIDDLE", 1, 2, 1),
     Row("16.2", "EMERALD", "MIDDLE", 4, 40, 20)}

Rate(n, d) == [n |-> n, d |-> d]

Requests ==
    [patch : {"ALL", "16.2"}, tier : {"ALL", "EMERALD"}, my_role : {"TOP", "MID"},
     champ_pool : {<<0, 4, 2, 1>>}, bans : {<<>>, <<1, 0>>}, min_games : {0, 2},
     min_pick_rate : {Rate(0, 1), Rate(1, 4), Rate(1, 2)},
     use_champ_pool : BOOLEAN, max_candidates : {1, 400}, top_n : {0, 2, 10}]

syn(r) ==
    CASE r = "MIDDLE" -> <<"MIDDLE", "MID">>
      [] r = "MID" -> <<"MID", "MIDDLE">>
      [] r = "BOTTOM" -> <<"BOTTOM", "BOT", "ADC">>
      [] r = "BOT" -> <<"BOT", "BOTTOM", "ADC">>
      [] r = "ADC" -> <<"ADC", "BOTTOM", "BOT">>
      [] r = "UTILITY" -> <<"UTILITY", "SUPPORT", "SUP">>
      [] r = "SUPPORT" -> <<"SUPPORT", "UTILITY", "SUP">>
      [] r = "SUP" -> <<"SUP", "UTILITY", "SUPPORT">>
      [] r = "JUNGLE" -> <<"JUNGLE", "JG">>
      [] r = "JG" -> <<"JG", "JUNGLE">>
      [] r = "TOP" -> <<"TOP">>
      [] OTHER -> <<r>>

\* the first element of s that is in X, or dflt
first_in(s, X, dflt) ==
    IF \E i \in DOMAIN s : s[i] \in X
    THEN s[CHOOSE i \in DOMAIN s : s[i] \in X /\ \A j \in 1..(i - 1) : s[j] \notin X]
    ELSE dflt

\* db_roles are the roles of agg_champ_role; when the table is empty every
\* query below is empty, whatever the role
normalize_role_with_db(t, role) ==
    IF role = "" THEN "MIDDLE"
    ELSE IF {r.role : r \in t} = {} \/ role \in {r.role : r \in t} THEN role
    ELSE first_in(syn(role), {r.role : r \in t}, first_in(syn(role), RoleSet, role))

\* (?='ALL' OR patch=?)
patch_condition(r, patch) == patch = "ALL" \/ r.patch = patch

\* (?='ALL' OR tier=? OR tier IS NULL)
\* A faulty variant of the tier condition, which lets every tier pass
tier_condition_any(r, tier) == TRUE

\* (?='ALL' OR tier=? OR tier IS NULL)
tier_condition(r, tier) == tier = "ALL" \/ r.tier = tier \/ r.tier = NULL

in_scope(t, patch, tier) ==
    {r \in t : patch_condition(r, patch) /\ tier_condition(r, tier)}

\* Floats are fixed-point numbers: the integer x stands for x / Scale
Scale == 10000

\* z = 1.96, in hundredths
z_score == 196

\* math.sqrt: the largest k of lo..hi with k * k <= v
RECURSIVE sqrt_in(_, _, _)
sqrt_in(v, lo, hi) ==
    IF lo >= hi THEN lo
    ELSE LET mid == (lo + hi + 1) \div 2
         IN  IF mid * mid <= v THEN sqrt_in(v, mid, hi) ELSE sqrt_in(v, lo, mid - 1)

sqrt(v) == sqrt_in(v, 0, 2 * Scale)

\* A faulty variant of _wilson_lower_bound, which adds the margin to the
\* losses instead of taking it from the wins
wilson_of_losses(wins, n) ==
    IF n <= 0 THEN 0
    ELSE LET phat == ((n - wins) * Scale) \div n
             zz == (z_score * z_score * Scale) \div 10000
             denom == Scale + zz \div n
             center == phat + zz \div (2 * n)
             margin == (z_score * sqrt((phat * (Scale - phat) + (zz * Scale) \div (4 * n))
                                        \div n)) \div 100
         IN  Max(0, ((center - margin) * Scale) \div denom)

\* _wilson_lower_bound(wins, n), z = 1.96: phat, denom, center and margin as
\* the code computes them, each rounded down to a multiple of 1 / Scale
wilson_lower_bound(wins, n) ==
    IF n <= 0 THEN 0
    ELSE LET phat == (wins * Scale) \div n
             zz == (z_score * z_score * Scale) \div 10000
             denom == Scale + zz \div n
             center == phat + zz \div (2 * n)
             margin == (z_score * sqrt((phat * (Scale - phat) + (zz * Scale) \div (4 * n))
                                        \div n)) \div 100
         IN  Max(0, ((center - margin) * Scale) \div denom)

\* SUM(games)
RECURSIVE sum_games(_)
sum_games(rows) ==
    IF rows = {} THEN 0
    ELSE LET r == CHOOSE x \in rows : TRUE
         IN  r.games + sum_games(rows \ {r})

\* GROUP BY champ_id: SUM(games) of one champion
games_of(rows, cid) == sum_games({r \in rows : r.champ_id = cid})

\* the rows of q_total, q_cand and q_base: WHERE role=? AND patch AND tier
role_rows(t, q) ==
    {r \in in_scope(t, q.patch, q.tier) :
        r.role = normalize_role_with_db(t, q.my_role)}

total_games_for_role(t, q) == sum_games(role_rows(t, q))

min_games_eff(q) == IF q.min_games < 1 THEN 1 ELSE q.min_games

\* A faulty variant of banset, which bans nothing
banset_none(q) == {}

\* set(int(x) for x in (bans or []) if int(x) != 0)
banset(q) == elems(q.bans) \ {0}

\* ORDER BY g DESC LIMIT n: the groups kept, in any order among equal g
limited(rows, n) ==
    {L \in SUBSET {r.champ_id : r \in rows} :
        /\ Cardinality(L) = Min(n, Cardinality({r.champ_id : r \in rows}))
        /\ \A a \in L : \A b \in {r.champ_id : r \in rows} \ L :
              games_of(rows, a) >= games_of(rows, b)}

pick_rate_any(g, total, rate) == TRUE

\* pr >= float(min_pick_rate), where pr = g / total_games_for_role
pick_rate_ok(g, total, rate) ==
    IF total > 0 THEN g * rate.d >= rate.n * total ELSE rate.n <= 0

RecInit ==
    /\ agg_champ_role \in SUBSET RowPool
    /\ rq \in Requests
    /\ r_pc = "start"
    /\ candidates = {}
    /\ recs = <<>>
    /\ reason = None

\* the defaults of the signature of recommend_champions
DefaultRequest ==
    [patch |-> "ALL", tier |-> "ALL", my_role |-> "", champ_pool |-> <<>>,
     bans |-> <<>>, min_games |-> 30, min_pick_rate |-> Rate(1, 200),
     use_champ_pool |-> TRUE, max_candidates |-> 400, top_n |-> 10]

RecParked ==
    /\ agg_champ_role = {}
    /\ rq = DefaultRequest
    /\ r_pc = "done"
    /\ candidates = {}
    /\ recs = <<>>
    /\ reason = None

\* return [], {"reason": why, ...}
ReturnNone(why) ==
    /\ r_pc' = "done"
    /\ recs' = <<>>
    /\ reason' = why
    /\ UNCHANGED <<agg_champ_role, rq, candidates>>

\* 1) the candidate set
Candidates ==
    /\ r_pc = "start"
    /\ IF rq.use_champ_pool
       THEN IF elems(rq.champ_pool) \ ({0} \cup banset(rq)) = {}
            THEN ReturnNone("champ_pool empty(after bans) while use_champ_pool=true")
            ELSE /\ candidates' = elems(rq.champ_pool) \ ({0} \cup banset(rq))
                 /\ r_pc' = "base"
                 /\ UNCHANGED <<agg_champ_role, rq, recs, reason>>
       ELSE IF total_games_for_role(agg_champ_role, rq) <= 0
            THEN ReturnNone("total_games_for_role is 0 (no data for role/patch/tier)")
            ELSE \E L \in limited(role_rows(agg_champ_role, rq), rq.max_candidates) :
                    /\ candidates' =
                          {c \in L \ banset(rq) :
                              pick_rate_ok(games_of(role_rows(agg_champ_role, rq), c),
                                           total_games_for_role(agg_champ_role, rq),
                                           rq.min_pick_rate)}
                    /\ IF candidates' = {}
                       THEN /\ r_pc' = "done"
                            /\ reason' = "no candidates after pick_rate filter"
                       ELSE /\ r_pc' = "base"
                            /\ reason' = reason
                    /\ UNCHANGED <<agg_champ_role, rq, recs>>

\* q_base, or q_base2 (no role) when q_base has no row
base_rows(t, q, cands) ==
    IF {r \in role_rows(t, q) : r.champ_id \in cands} # {}
    THEN {r \in role_rows(t, q) : r.champ_id \in cands}
    ELSE {r \in in_scope(t, q.patch, q.tier) : r.champ_id \in cands}

\* A faulty variant of base_map, which keeps the rows below min_games
base_map_all(rows, q) ==
    [c \in {x \in {r.champ_id : r \in rows} : games_of(rows, x) > 0} |->
        games_of(rows, c)]

\* f"base_map empty (maybe min_games too high: min_games={min_games_eff})"
base_map_empty(q) ==
    "base_map empty (maybe min_games too high: min_games="
        \o ToString(min_games_eff(q)) \o ")"

\* base_map[cid]["games"]
base_map(rows, q) ==
    [c \in {x \in {r.champ_id : r \in rows} :
               games_of(rows, x) > 0 /\ games_of(rows, x) >= min_games_eff(q)} |->
        games_of(rows, c)]

\* SUM(wins)
RECURSIVE sum_wins(_)
sum_wins(rows) ==
    IF rows = {} THEN 0
    ELSE LET r == CHOOSE x \in rows : TRUE
         IN  r.wins + sum_wins(rows \ {r})

\* GROUP BY champ_id: SUM(wins) of one champion
wins_of(rows, cid) == sum_wins({r \in rows : r.champ_id = cid})

\* The recommendation of champion c: its final_score is round(final, 2) in
\* hundredths, where final = base_lb + syn + ctd and base_lb = 100.0 *
\* _wilson_lower_bound(w, g); with no ally pick and no enemy pick syn and ctd
\* are 0.0
rec_of(rows, bm, c) ==
    [champ_id |-> c,
     final_score |-> wilson_lower_bound(wins_of(rows, c), bm[c]),
     games |-> bm[c]]

\* (x["final_score"], x["games"]) of a is at least that of b
sort_key_ge(a, b) ==
    \/ a.final_score > b.final_score
    \/ a.final_score = b.final_score /\ a.games >= b.games

\* The orders in which a list can hold the records R, each once
orders_of(R) ==
    {s \in [1..Cardinality(R) -> R] : \A i, j \in DOMAIN s : i # j => s[i] # s[j]}

\* A faulty variant of sorted_recs, which sorts without reverse=True
sorted_recs_asc(R) ==
    {s \in orders_of(R) :
        \A i, j \in DOMAIN s : i < j => sort_key_ge(s[j], s[i])}

\* recs.sort(key=lambda x: (x["final_score"], x["games"]), reverse=True):
\* the lists that the sort can leave (records of equal key in any order)
sorted_recs(R) ==
    {s \in orders_of(R) :
        \A i, j \in DOMAIN s : i < j => sort_key_ge(s[i], s[j])}

\* return recs[: int(top_n)], meta
Assemble(rows, bm) ==
    \E s \in sorted_recs({rec_of(rows, bm, c) : c \in DOMAIN bm}) :
        /\ recs' = SubSeq(s, 1, Min(rq.top_n, Len(s)))
        /\ reason' = "ok"
        /\ r_pc' = "done"
        /\ UNCHANGED <<agg_champ_role, rq, candidates>>

\* 2) to 5) the base rows, their scores and the recommendations
Recommend ==
    /\ r_pc = "base"
    /\ IF base_rows(agg_champ_role, rq, candidates) = {}
       THEN ReturnNone("no base rows")
       ELSE IF DOMAIN base_map(base_rows(agg_champ_role, rq, candidates), rq) = {}
       THEN ReturnNone(base_map_empty(rq))
       ELSE Assemble(base_rows(agg_champ_role, rq, candidates),
                     base_map(base_rows(agg_champ_role, rq, candidates), rq))

RecNext ==
    \/ Candidates /\ UNCHANGED <<clientVars, aggVars, ckptVars, crawlVars, guessVars, storeVars, wilsonVars>>
    \/ Recommend /\ UNCHANGED <<clientVars, aggVars, ckptVars, crawlVars, guessVars, storeVars, wilsonVars>>

(***************************************************************************)
(* The match store: storage.py.  A table is the set of its rows, and a row  *)
(* is a record of its columns.                                              *)
(***************************************************************************)
\* Two rows agree on the columns K of a primary key
same_key(r, row, K) == \A c \in K : r[c] = row[c]

\* INSERT OR IGNORE INTO a table with primary key K
insert_or_ignore(tbl, row, K) ==
    IF \E r \in tbl : same_key(r, row, K) THEN tbl ELSE tbl \cup {row}

\* INSERT OR REPLACE INTO a table with primary key K
insert_or_replace(tbl, row, K) ==
    {r \in tbl : ~ same_key(r, row, K)} \cup {row}

\* The primary keys of init_schema
PrimaryKey ==
    [matches |-> {"match_id"},
     participants |-> {"match_id", "puuid"},
     rank_snapshots |-> {"puuid", "as_of_ts"},
     match_bans |-> {"match_id", "team_id", "ban_slot"}]

insert_match(st, match_id, game_creation, patch, queue_id) ==
    [st EXCEPT !.matches =
        insert_or_ignore(@, [match_id |-> match_id, game_creation |-> game_creation,
                             patch |-> patch, queue_id |-> queue_id],
                         PrimaryKey.matches)]

insert_participant(st, match_id, puuid, champ_id, role, win, team_id) ==
    [st EXCEPT !.participants =
        insert_or_ignore(@, [match_id |-> match_id, puuid |-> puuid,
                             champ_id |-> champ_id, role |-> role, win |-> win,
                             team_id |-> team_id],
                         PrimaryKey.participants)]

insert_rank_snapshot(st, puuid, as_of_ts, tier, division, lp, source) ==
    [st EXCEPT !.rank_snapshots =
        insert_or_replace(@, [puuid |-> puuid, as_of_ts |-> as_of_ts, tier |-> tier,
                              division |-> division, league_points |-> lp,
                              source |-> source],
                          PrimaryKey.rank_snapshots)]

\* The row of match_bans for one (team_id, ban_slot, champ_id) of bans
ban_row(match_id, b) ==
    [match_id |-> match_id, team_id |-> b[1], ban_slot |-> b[2], champ_id |-> b[3]]

\* executemany: one INSERT OR REPLACE per element of bans, in order
RECURSIVE insert_match_bans(_, _, _)
insert_match_bans(st, match_id, bans) ==
    IF bans = <<>> THEN st
    ELSE insert_match_bans(
             [st EXCEPT !.match_bans =
                 insert_or_replace(@, ban_row(match_id, Head(bans)),
                                   PrimaryKey.match_bans)],
             match_id, Tail(bans))

StoreMatchIds == {"m1", "m2"}

StorePuuids == {"a", "b"}

StoreBans ==
    {<<>>, << <<100, 1, 5>> >>, << <<100, 1, 6>>, <<200, 1, 7>> >>,
     << <<100, 1, 5>>, <<100, 1, 6>> >>}

\* connect(): init_schema on a new file
StoreInit ==
    /\ store = [matches |-> {}, participants |-> {}, rank_snapshots |-> {},
                match_bans |-> {}]
    /\ last_insert = <<>>

StoreParked ==
    /\ store = [matches |-> {}, participants |-> {}, rank_snapshots |-> {},
                match_bans |-> {}]
    /\ last_insert = <<>>

InsertMatch ==
    \E match_id \in StoreMatchIds, game_creation \in {1, 2} :
        /\ store' = insert_match(store, match_id, game_creation, "16.2", 420)
        /\ last_insert' =
             <<[table |-> "matches",
                rows |-> {[match_id |-> match_id, game_creation |-> game_creation,
                           patch |-> "16.2", queue_id |-> 420]}]>>

InsertParticipant ==
    \E puuid \in StorePuuids, champ_id \in {1, 2} :
        /\ store' = insert_participant(store, "m1", puuid, champ_id, "TOP", 1, 100)
        /\ last_insert' =
             <<[table |-> "participants",
                rows |-> {[match_id |-> "m1", puuid |-> puuid, champ_id |-> champ_id,
                           role |-> "TOP", win |-> 1, team_id |-> 100]}]>>

InsertRankSnapshot ==
    \E as_of_ts \in {1, 2}, tier \in {"GOLD", NULL} :
        /\ store' = insert_rank_snapshot(store, "a", as_of_ts, tier, NULL, NULL,
                                         "collector_asof")
        /\ last_insert' =
             <<[table |-> "rank_snapshots",
                rows |-> {[puuid |-> "a", as_of_ts |-> as_of_ts, tier |-> tier,
                           division |-> NULL, league_points |-> NULL,
                           source |-> "collector_asof"]}]>>

InsertMatchBans ==
    \E bans \in StoreBans :
        /\ store' = insert_match_bans(store, "m1", bans)
        /\ last_insert' =
             <<[table |-> "match_bans",
                rows |-> {ban_row("m1", bans[i]) : i \in DOMAIN bans}]>>

StoreNext ==
    \/ InsertMatch /\ UNCHANGED <<clientVars, aggVars, ckptVars, crawlVars, guessVars, recVars, wilsonVars>>
    \/ InsertParticipant /\ UNCHANGED <<clientVars, aggVars, ckptVars, crawlVars, guessVars, recVars, wilsonVars>>
    \/ InsertRankSnapshot /\ UNCHANGED <<clientVars, aggVars, ckptVars, crawlVars, guessVars, recVars, wilsonVars>>
    \/ InsertMatchBans /\ UNCHANGED <<clientVars, aggVars, ckptVars, crawlVars, guessVars, recVars, wilsonVars>>

(***************************************************************************)
(* _wilson_lower_bound of recommender.py, called for one n and for wins =   *)
(* 0, 1, ..., n in turn.                                                    *)
(***************************************************************************)
MaxWilsonGames == 40

WilsonInit ==
    /\ wl_n \in 1..MaxWilsonGames
    /\ wl_wins = 0
    /\ wl_prev = -1
    /\ wl_lb = -1

WilsonParked ==
    /\ wl_n = 1
    /\ wl_wins = 0
    /\ wl_prev = -1
    /\ wl_lb = -1

\* A call of _wilson_lower_bound(wl_wins, wl_n)
WilsonCall ==
    /\ wl_wins <= wl_n
    /\ wl_lb' = wilson_lower_bound(wl_wins, wl_n)
    /\ wl_prev' = wl_lb
    /\ wl_wins' = wl_wins + 1
    /\ UNCHANGED wl_n

WilsonNext ==
    \/ WilsonCall /\ UNCHANGED <<clientVars, aggVars, ckptVars, crawlVars, guessVars, recVars, storeVars>>

(***************************************************************************)
(* The specifications, one per component.                                  *)
(***************************************************************************)
ClientParked ==
    /\ now = 1
    /\ req_ts_1s = <<>>
    /\ req_ts_120s = <<>>
    /\ limit_1s = RIOT_LIMIT_1S
    /\ limit_120s = RIOT_LIMIT_120S
    /\ env_throttle = FALSE
    /\ throttle_limit_1s = Max(1, RIOT_LIMIT_1S - 1)
    /\ throttle_limit_120s = Max(1, RIOT_LIMIT_120S - 5)
    /\ pace_enabled = FALSE
    /\ last_pace_ts = 0
    /\ stats = [total_req |-> 0, n_429 |-> 0, n_retry |-> 0, sleep_sec_total |-> 0]
    /\ cpc = "idle"
    /\ attempt = 0
    /\ outcome = None
    /\ calls = 0
    /\ sent = <<>>
    /\ last429 = <<>>
    /\ status_code = 0
    /\ last_text = None

InitClient ==
    ClientInit /\ AggParked /\ CkParked /\ CrawlParked /\ GuessParked /\ RecParked /\ StoreParked
    /\ WilsonParked

SpecClient == InitClient /\ [][ClientNext]_vars

InitAgg ==
    AggInit /\ ClientParked /\ CkParked /\ CrawlParked /\ GuessParked /\ RecParked /\ StoreParked
    /\ WilsonParked

SpecAgg == InitAgg /\ [][AggNext]_vars

InitUnlabelled ==
    UnlabelledInit /\ ClientParked /\ CkParked /\ CrawlParked /\ GuessParked /\ RecParked /\ StoreParked
    /\ WilsonParked

SpecUnlabelled == InitUnlabelled /\ [][AggNext]_vars

InitCkpt ==
    CkInit /\ ClientParked /\ AggParked /\ CrawlParked /\ GuessParked /\ RecParked /\ StoreParked
    /\ WilsonParked

SpecCkpt == InitCkpt /\ [][CkNext]_vars

InitCrawl ==
    CrawlInit /\ ClientParked /\ AggParked /\ CkParked /\ GuessParked /\ RecParked /\ StoreParked
    /\ WilsonParked

SpecCrawl == InitCrawl /\ [][CrawlNext]_vars

\* The session is inside the try block of main(); at each of these places one
\* action of the crawler is enabled, whatever the state
Running ==
    cr_pc \in {"loop", "match_ids", "summoner", "league", "matches", "detail",
               "participants"}

\* The crawler as a process that keeps running: the interpreter takes the next
\* step of a session and every call of the client returns.  This is the weak
\* fairness of the steps of a session, with their enabling condition written
\* out as Running.
CrawlFairness == []<>(~ Running) \/ []<><<Running>>_vars

SpecCrawlFair == InitCrawl /\ [][CrawlNext]_vars /\ CrawlFairness

\* The checkpoints that an earlier run of the crawler can have left: none,
\* or frontier [b] and visited {a} with the target patch set of that run
PriorCheckpoints ==
    {[cols |-> KvCols, rows |-> <<>>]} \cup
    {save_state([cols |-> KvCols, rows |-> <<>>], << <<"b">> >>, << <<"a">> >>,
                << <<(<<"total_players">>), [n |-> 1]>>,
                   <<(<<"saved_matches">>), [n |-> 1]>>,
                   <<(<<"explored_non_target">>), [n |-> 0]>>,
                   <<(<<"target_patches">>), [s |-> tp]>>,
                   <<(<<"updated_at">>), [n |-> 0]>> >>) :
        tp \in {<<"16.1">>, <<"16.2">>, <<"16.1", ",", "16.2">>}}

\* A run of the crawler on a store that an earlier run can have used
InitResume ==
    /\ args \in [target_patch : {"16.2", "latest", "latest2"}, max_players : {2},
                 checkpoint_every_players : {1}, commit_every : {1},
                 reset_state : BOOLEAN, explore_non_target : {1},
                 explore_limit : {2}, match_tier_min_known : {1}]
    /\ cr_pc = "boot"
    /\ status = "none"
    /\ sessions = 0
    /\ queue = <<>>
    /\ seen = {}
    /\ total_players = 0
    /\ saved_matches = 0
    /\ explored_non_target = 0
    /\ since_commit = 0
    /\ loc = NoLoc
    /\ db = EmptyDb
    /\ wdb = EmptyDb
    /\ hist = [faults |-> 0, interrupts |-> 0, auth |-> FALSE,
               after_auth |-> FALSE, failed |-> "none",
               discarded |-> FALSE]
    /\ crawl_state \in PriorCheckpoints
    /\ ck_saved = <<>>
    /\ ck_loaded = <<>>
    /\ ck_raised = FALSE
    /\ ClientParked /\ AggParked /\ GuessParked /\ RecParked /\ StoreParked
    /\ WilsonParked

SpecResume == InitResume /\ [][CrawlNext]_vars

InitGuess ==
    GuessInit /\ ClientParked /\ AggParked /\ CkParked /\ CrawlParked /\ RecParked /\ StoreParked
    /\ WilsonParked

SpecGuess == InitGuess /\ [][GuessNext]_vars

InitRec ==
    RecInit /\ ClientParked /\ AggParked /\ CkParked /\ CrawlParked /\ GuessParked /\ StoreParked
    /\ WilsonParked

SpecRec == InitRec /\ [][RecNext]_vars

InitStore ==
    StoreInit /\ ClientParked /\ AggParked /\ CkParked /\ CrawlParked /\ GuessParked /\ RecParked
    /\ WilsonParked

InitWilson ==
    WilsonInit /\ ClientParked /\ AggParked /\ CkParked /\ CrawlParked /\ GuessParked
    /\ RecParked /\ StoreParked

SpecWilson == InitWilson /\ [][WilsonNext]_vars

SpecStore == InitStore /\ [][StoreNext]_vars

(***************************************************************************)
(* The properties.                                                         *)
(***************************************************************************)

\* The requests issued in the window of w seconds that ends with request i
InWindow(i, w) == {j \in 1..i : sent[j].t > sent[i].t - w}

\* C1: under the simulated clock the number of requests issued within any
\* rolling 1-second window never exceeds the 1-second threshold, and the number
\* issued within any rolling 120-second window never exceeds the 120-second
\* threshold (the thresholds in force when the window's last request was
\* issued), for any sequence of get calls and their retries.
C1_WindowBudget ==
    \A i \in 1..Len(sent) :
        /\ Cardinality(InWindow(i, Window1)) <= sent[i].th1
        /\ Cardinality(InWindow(i, Window120)) <= sent[i].th120

\* C2: when a job is run again with the same arguments, without --reset and
\* over an unchanged match store, after a complete run of it, the aggregate
\* counters and the done-ledger stay exactly as that run left them, at every
\* point of the re-run.
C2_RerunIdempotent ==
    (prev_run # <<>> /\ prev_run[1].job_id = jobid /\ ~ job.reset)
        => /\ agg_tbl = prev_run[1].agg_tbl
           /\ backfill_done = prev_run[1].done

\* A re-run of a job that had counted something has completed
C2_Witness ==
    /\ jpc = "idle"
    /\ prev_run # <<>>
    /\ prev_run[1].reruns = 1
    /\ prev_run[1].job_id = jobid
    /\ ~ job.reset
    /\ prev_run[1].agg_tbl # EmptyBag
    /\ \E m \in matches : <<jobid, m>> \in backfill_done

\* C3: whatever runs of a job were completed or killed, before, between or
\* inside its batch flushes, the increments of a match are committed to the
\* counters at most once per job since the job's last reset.
C3_AtMostOnce ==
    \A x \in JobIds \X MatchIds : contrib[x] <= 1

\* A run was killed inside its second batch flush, and a later run of the
\* same job without --reset has completed the remaining matches
C3_Witness ==
    /\ jpc = "idle"
    /\ last_abort # <<>>
    /\ last_abort[1].job_id = jobid
    /\ last_abort[1].in_later_flush
    /\ ~ job.reset
    /\ prev_run # <<>>
    /\ prev_run[1].job_id = jobid
    /\ prev_run[1].reruns = 0
    /\ Cardinality({m \in matches : contrib[<<jobid, m>>] = 1}) >= 2

\* C4: a crawl that is stopped by an external interrupt and re-run with the
\* same command, against the same API responses and with no failing call,
\* ends having visited the same identities and persisted the same matches as
\* the crawl that nothing stops
C4_ResumeExact ==
    (cr_pc = "exit" /\ status = "DONE" /\ hist.faults = 0 /\ ~ args.reset_state)
        => /\ db.matches = uninterrupted.matches
           /\ seen = uninterrupted.seen

\* C5: in the key-value layout and in the legacy single-row layout, a load
\* that follows a save returns the saved frontier, in the same order and with
\* its duplicates, and the saved visited set, for non-empty string ids.
C5_RoundTrip ==
    (ck_saved # <<>> /\ ck_loaded # <<>>)
        => /\ ck_loaded[1].queue_list = ck_saved[1].queue_list
           /\ ck_loaded[1].visited_set = ck_saved[1].visited_set

\* A frontier with a duplicate and ids that need escaping came back from the
\* legacy layout
C5_Witness ==
    /\ ck_saved # <<>>
    /\ ck_loaded # <<>>
    /\ mode_of(crawl_state) = "row"
    /\ ck_saved[1].queue_list = << <<"a", "\\", "\"">>, <<"a", "\\", "\"">> >>
    /\ ck_saved[1].visited_set = {<<"\n">>, <<",", " ", "]">>}

\* C6: a session never ends with the error of a failed fetch of a match list
\* or of a match detail (a failure other than 401/403): the failure is
\* absorbed and the loop goes on
C6_FetchFailureAbsorbed ==
    ~ (cr_pc = "exit" /\ status = "ERROR" /\ hist.failed \in {"match_ids", "match"})

\* C7: once a call of the client has received 401 or 403 in a session, the
\* session processes no further frontier entry, and when it has ended the
\* checkpoint holds its visited set
C7_AuthStopsCrawl ==
    hist.auth => /\ ~ hist.after_auth
                 /\ cr_pc = "exit" => load_state(crawl_state).visited_set = seen

\* The call has returned, for up to 5 distinct picks that all have usable
\* historical role data
UsablePicks ==
    /\ g_pc = "done"
    /\ ids # <<>>
    /\ Len(ids) <= 5
    /\ \A c \in elems(ids) : champ_total_games(dist[c]) > 0

Injective(f) == \A a \in DOMAIN f : \A b \in DOMAIN f : a # b => f[a] # f[b]

\* C8: for every input of up to 5 distinct enemy picks that all have usable
\* historical role data, the enemy-role inference never assigns the same role
\* to two different picks.
C8_DistinctRoles ==
    UsablePicks => \A a \in elems(ids) : \A b \in elems(ids) \ {a} : out2[a] # out2[b]

\* Five picks, two of them with the same role distribution, settled in more
\* than one round
C8_Witness ==
    /\ UsablePicks
    /\ Len(ids) = 5
    /\ dist[1] = dist[2]
    /\ guard > 1
    /\ Cardinality({out2[c] : c \in elems(ids)}) = 5

frac_add(a, b) == [n |-> a.n * b.d + b.n * a.d, d |-> a.d * b.d]

\* The sum of the role-fit ratios of the picks under the mapping f
fit_sum(f) ==
    LET acc[i \in 0..Len(ids)] ==
            IF i = 0 THEN [n |-> 0, d |-> 1]
            ELSE frac_add(acc[i - 1], role_ratio(dist[ids[i]], f[ids[i]]))
    IN  acc[Len(ids)]

C10_OpenPickRate ==
    (r_pc = "done" /\ ~ rq.use_champ_pool) =>
        \A rec \in elems(recs) :
            games_of(role_rows(agg_champ_role, rq), rec.champ_id) * rq.min_pick_rate.d
                >= rq.min_pick_rate.n * total_games_for_role(agg_champ_role, rq)

\* An open-mode call that returns an id while an unbanned champion of the
\* target role is below the minimum pick rate
C10_Witness ==
    /\ r_pc = "done"
    /\ ~ rq.use_champ_pool
    /\ rq.min_pick_rate.n > 0
    /\ recs # <<>>
    /\ \E r \in role_rows(agg_champ_role, rq) :
          /\ r.champ_id \notin banset(rq)
          /\ games_of(role_rows(agg_champ_role, rq), r.champ_id) * rq.min_pick_rate.d
                < rq.min_pick_rate.n * total_games_for_role(agg_champ_role, rq)

\* The requests the call c has issued
SentBy(c) == {i \in DOMAIN sent : sent[i].call = c}

Retried5xx == {500, 502, 503, 504}

\* The recorded requests that are still inside their window
pending ==
    Cardinality({i \in DOMAIN req_ts_1s : req_ts_1s[i] + Window1 > now})
    + Cardinality({i \in DOMAIN req_ts_120s : req_ts_120s[i] + Window120 > now})

\* A measure of what is left of the running call: the attempts left, then the
\* steps left of the attempt (the throttle loop sleeps until a recorded
\* request leaves its window)
call_rank ==
    IF cpc \in {"idle", "ready"} THEN -1
    ELSE (2 * MaxSends + 3) * (max_tries - attempt)
         + (CASE cpc = "pace" -> 2 * MaxSends + 2
              [] cpc = "throttle" -> 1 + pending
              [] OTHER -> 0)

\* Every step of a running call brings its end nearer, and no call issues more
\* than max_tries requests
CallBounded ==
    /\ [](\A c \in 1..calls : Cardinality(SentBy(c)) <= max_tries)
    /\ [](attempt <= max_tries /\ call_rank >= -1)
    /\ [][cpc \notin {"idle", "ready"} => call_rank' < call_rank]_vars

\* The call has ended and the statuses S are the non-200 ones it may have ended
\* on: it returned the body, or failed after max_tries requests
EndsWithin(S) ==
    (cpc \in {"idle", "ready"} /\ calls > 0 /\ status_code \in S \cup {0, 200}) =>
        \/ outcome = "json"
        \/ /\ outcome = "failed after retries"
           /\ attempt = max_tries
           /\ Cardinality(SentBy(calls)) = max_tries

C12_RetryAfterHonoured ==
    \A i \in SentBy(calls) :
        (/\ last429 # <<>>
         /\ last429[1].retry_after # <<>>
         /\ sent[i].t > last429[1].t)
            => sent[i].t >= last429[1].t + last429[1].retry_after[1]

\* C13: when a response has status 401 or 403, get fails immediately: no
\* further request is sent for that call and no retry or backoff sleep is
\* performed, however many attempts remain.
C13_AuthFailsAtOnce ==
    /\ [][(cpc = "send" /\ status_code' \in {401, 403}) =>
             /\ cpc' = "idle"
             /\ outcome' = "Unauthorized/Forbidden"
             /\ attempt' = attempt
             /\ now' = now
             /\ stats'.n_retry = stats.n_retry
             /\ stats'.sleep_sec_total = stats.sleep_sec_total]_vars
    /\ [](status_code \in {401, 403} =>
             /\ cpc \in {"idle", "ready"}
             /\ sent[Len(sent)].call = calls
             /\ sent[Len(sent)].attempt = attempt)

\* A 401/403 on the first attempt of a call, after an earlier call
C13_Witness ==
    /\ status_code \in {401, 403}
    /\ outcome = "Unauthorized/Forbidden"
    /\ attempt = 1
    /\ attempt < max_tries
    /\ calls > 1

\* What get raised: the type of the exception and its message, of which
\* last_text is a part after the retries
raised ==
    [type |-> IF outcome = "HTTPError" THEN "HTTPError" ELSE "RuntimeError",
     msg |-> outcome,
     last |-> IF outcome = "failed after retries" THEN last_text ELSE None]

\* The failure class of the response the call ended on
failure_class ==
    CASE status_code \in {401, 403} -> "AuthError"
      [] status_code = 429 -> "RateLimited"
      [] status_code \in Retried5xx -> "ServerError"
      [] status_code = 0 -> "NetworkError"
      [] OTHER -> "HTTPError"

\* The failure classes an exception can come from
classes_told(e) ==
    CASE e.msg = "Unauthorized/Forbidden" -> {"AuthError"}
      [] e.msg = "failed after retries" /\ e.last = "network error" -> {"NetworkError"}
      [] e.msg = "failed after retries" -> {"RateLimited", "ServerError"}
      [] OTHER -> {"HTTPError"}

Failed ==
    /\ cpc \in {"idle", "ready"}
    /\ outcome \in {"Unauthorized/Forbidden", "failed after retries"}

\* classes_told leaves no class out
ClassesTold == Failed => failure_class \in classes_told(raised)

\* C14: the failure outcome of get identifies the failure class: AuthError for
\* 401/403, RateLimited when retries are exhausted on 429, ServerError when
\* exhausted on 5xx, NetworkError when exhausted on transport failure.
C14_ClassIdentified == Failed => classes_told(raised) = {failure_class}


\* The keys of a metadata map
meta_keys(meta) == {meta[i][1] : i \in DOMAIN meta}

\* The metadata map that load_state returns for the table t
persisted_meta(t) ==
    LET e == ensure_state_table(t)
        mj == or_default(IF mode_of(e) = "kv" THEN kv_get(e, "meta_json")
                         ELSE row_get(e).meta_json, <<"{", "}">>)
    IN  loads_dict(mj).val

\* C15: a save_state with metadata keeps every key that was persisted before
\* it and is not among the keys of the caller's metadata, with its previous
\* value
C15_SaveMergesMeta ==
    [][(/\ ~ unknown_schema(crawl_state)
        /\ ck_saved' # <<>>
        /\ ck_loaded' = <<>>
        /\ ck_saved'[1].meta # <<>>)
       => LET before == persisted_meta(crawl_state)
              after == persisted_meta(crawl_state')
          IN  \A i \in DOMAIN before :
                before[i][1] \notin meta_keys(ck_saved'[1].meta)
                    => \E j \in DOMAIN after : after[j] = before[i]]_vars

\* C16: a session started without --reset_state on a store with no
\* checkpoint, or with a checkpoint whose recorded target patch set differs
\* from the session's, begins with frontier [seed], an empty visited set and
\* zeroed counters; any other session started without --reset_state begins
\* with the persisted visited set and, when it is not empty, the persisted
\* frontier
C16_StartState ==
    [][(sessions' = sessions + 1 /\ ~ args.reset_state)
       => LET l == load_state(crawl_state)
              prev_tp == meta_str(l.meta, <<"target_patches">>)
              absent == l.queue_list = <<>> /\ l.visited_set = {} /\ l.meta = <<>>
          IN  IF absent \/ (prev_tp # <<>> /\ prev_tp # curr_tp)
              THEN /\ queue' = <<Seed>>
                   /\ seen' = {}
                   /\ total_players' = 0
                   /\ saved_matches' = 0
                   /\ explored_non_target' = 0
              ELSE /\ l.queue_list # <<>> => queue' = l.queue_list
                   /\ seen' = l.visited_set]_vars

\* The rows of table tbl that have the primary key of row
rows_at(tbl, row, K) == {r \in tbl : same_key(r, row, K)}

\* C17: insert_match, insert_participant, insert_rank_snapshot and
\* insert_match_bans are insert-or-ignore on the natural key: for a key that
\* is already present the call adds no row and leaves the stored row
\* unchanged, whatever the attribute values it is given
C17_InsertOrIgnore ==
    [][last_insert' # <<>>
       => LET t == last_insert'[1].table
          IN  \A row \in last_insert'[1].rows :
                rows_at(store[t], row, PrimaryKey[t]) # {}
                    => rows_at(store'[t], row, PrimaryKey[t])
                           = rows_at(store[t], row, PrimaryKey[t])]_vars

\* C18: after any sequence of complete, killed and reset aggregation runs,
\* every row of the aggregate table of the kind (champ-role, matchup or
\* synergy), committed or written in the open transaction, has
\* 0 <= wins <= games
C18_WinsWithinGames ==
    /\ \A r \in DOMAIN agg_tbl : 0 <= r.wins /\ r.wins <= r.games
    /\ tx # <<>> => \A r \in DOMAIN tx[1].agg : 0 <= r.wins /\ r.wins <= r.games

\* A run was killed, and the third run started has left a row that counts
\* several games, some won and some lost
C18_Witness ==
    /\ jpc = "idle"
    /\ runs >= 3
    /\ last_abort # <<>>
    /\ \E r \in DOMAIN agg_tbl : r.games >= 2 /\ 0 < r.wins /\ r.wins < r.games

C20_BansExcluded ==
    r_pc = "done" => \A r \in elems(recs) : r.champ_id \notin elems(rq.bans)

\* A query with a champion pool has returned recommendations, and a champion
\* of the pool that has rows for the role in scope is in the ban list
C20_Witness ==
    /\ r_pc = "done"
    /\ rq.use_champ_pool
    /\ recs # <<>>
    /\ \E c \in elems(rq.bans) \cap elems(rq.champ_pool) :
          games_of(role_rows(agg_champ_role, rq), c) >= min_games_eff(rq)

\* The games of candidate c in the rows of q_base (the rows of the role, or
\* of every role when no candidate has a row of the role)
base_games(c) == games_of(base_rows(agg_champ_role, rq, candidates), c)

\* Every candidate left after the bans has fewer games than min_games
NoneMeets == \A c \in candidates : base_games(c) < rq.min_games

\* No candidate whose games in scope are below min_games is returned
BelowDiscarded ==
    \A c \in candidates :
        base_games(c) < rq.min_games => \A r \in elems(recs) : r.champ_id # c

\* C21 as stated: every candidate whose games in scope are below min_games
\* is discarded, and when candidates are left after the bans and none of them
\* meets min_games the result is the empty list with reason "no base rows
\* after sample-size filter"
C21_SampleSizeReason ==
    r_pc = "done" =>
        /\ BelowDiscarded
        /\ (candidates # {} /\ NoneMeets) =>
              recs = <<>> /\ reason = "no base rows after sample-size filter"

\* C21, amended: every candidate whose games in scope are below min_games
\* is discarded, and when the candidates left after the bans are not none and
\* none of them meets min_games the result is the empty list with reason
\* "base_map empty (maybe min_games too high: min_games=N)", or with reason
\* "no base rows" when no candidate has a row in scope
C21_SampleSizeFilter ==
    r_pc = "done" =>
        /\ BelowDiscarded
        /\ (candidates # {} /\ NoneMeets) =>
              /\ recs = <<>>
              /\ reason =
                    IF base_rows(agg_champ_role, rq, candidates) = {}
                    THEN "no base rows"
                    ELSE "base_map empty (maybe min_games too high: min_games="
                             \o ToString(rq.min_games) \o ")"

\* A banned champion was taken out of the pool, and the one candidate left
\* with rows in scope has fewer games than min_games
C21_Witness ==
    /\ r_pc = "done"
    /\ rq.use_champ_pool
    /\ elems(rq.bans) \cap elems(rq.champ_pool) # {}
    /\ candidates # {}
    /\ \E c \in candidates : 0 < base_games(c) /\ base_games(c) < rq.min_games
    /\ recs = <<>>
    /\ reason = "base_map empty (maybe min_games too high: min_games=2)"

\* C22: the list returned by a successful query is in descending order of
\* (final score, games), has at most top_n elements, and every eligible
\* candidate that is not in it has a key that is at most the key of every
\* element of it
C22_RankedTruncated ==
    (r_pc = "done" /\ reason = "ok") =>
        /\ Len(recs) <= rq.top_n
        /\ \A i, j \in DOMAIN recs : i < j => sort_key_ge(recs[i], recs[j])
        /\ \A c \in DOMAIN base_map(base_rows(agg_champ_role, rq, candidates), rq) :
              (\A i \in DOMAIN recs : recs[i].champ_id # c)
                  => \A i \in DOMAIN recs :
                        sort_key_ge(recs[i],
                                    rec_of(base_rows(agg_champ_role, rq, candidates),
                                           base_map(base_rows(agg_champ_role, rq, candidates), rq),
                                           c))

\* Two recommendations of different scores were returned and another eligible
\* candidate was cut off
C22_Witness ==
    /\ r_pc = "done"
    /\ reason = "ok"
    /\ rq.top_n = 2
    /\ Len(recs) = 2
    /\ recs[1].final_score > recs[2].final_score
    /\ Cardinality(DOMAIN base_map(base_rows(agg_champ_role, rq, candidates), rq)) > 2

\* C23: for a fixed n >= 1 and every 0 <= w < n, the Wilson lower bound of
\* (wins = w + 1, games = n) is at least that of (wins = w, games = n)
C23_WilsonMonotone ==
    wl_wins >= 2 => wl_lb >= wl_prev

\* The bound was computed for every number of wins of many games, and the
\* last two values differ
C23_Witness ==
    /\ wl_n >= 30
    /\ wl_wins = wl_n + 1
    /\ wl_prev > 0
    /\ wl_lb > wl_prev

\* The matches of the scope of the job, whatever the ledger says
scope_matches == {m \in matches : Like(MatchRows[m].patch, patch_pat(job.patch))}

\* The aggregate table that the loop of main() and its flushes leave, from
\* the table tbl, the items a, the matches ms still to do and n processed
RECURSIVE run_loop(_, _, _, _)
run_loop(tbl, a, ms, n) ==
    IF ms = <<>>
    THEN IF DOMAIN a # {} THEN executemany_upsert(tbl, a) ELSE tbl
    ELSE IF (n + 1) % job.commit_every = 0
         THEN run_loop(executemany_upsert(tbl,
                           add_increments(a, increments(kind, Head(ms),
                               IF force_tier(job.tier) # NULL THEN force_tier(job.tier)
                               ELSE MatchRows[Head(ms)].mt_tier))),
                       <<>>, Tail(ms), n + 1)
         ELSE run_loop(tbl,
                       add_increments(a, increments(kind, Head(ms),
                           IF force_tier(job.tier) # NULL THEN force_tier(job.tier)
                           ELSE MatchRows[Head(ms)].mt_tier)),
                       Tail(ms), n + 1)

\* The rows of the aggregate table that the DELETE of _reset addresses
reset_scope(tbl) == tbl (-) delete_agg(tbl, job.patch, job.tier)

\* A run with --reset has completed and the match store is as it left it
ResetRunCompleted ==
    /\ jpc = "idle"
    /\ job.reset
    /\ prev_run # <<>>
    /\ prev_run[1].job_id = jobid

\* C24: after a complete run with --reset, the aggregate rows in the scope of
\* the job and the ledger entries of the job are those of a run of the same
\* job over the same matches from an empty aggregate table and an empty
\* ledger, whatever the tables held before the reset
C24_ResetIsFreshRun ==
    ResetRunCompleted =>
        /\ reset_scope(agg_tbl) = run_loop(EmptyBag, <<>>, OrderBy(scope_matches), 0)
        /\ {x \in backfill_done : x[1] = jobid} = {<<jobid, m>> : m \in scope_matches}

\* A run with --reset has completed after a run of the same job was killed
\* inside its second batch flush, and has counted something
C24_Witness ==
    /\ ResetRunCompleted
    /\ last_abort # <<>>
    /\ last_abort[1].job_id = jobid
    /\ last_abort[1].in_later_flush
    /\ reset_scope(agg_tbl) # EmptyBag

\* The number of increments of the row of a key when every match of the
\* store is counted once at the tier of the row
once_games(key) ==
    Cardinality(UNION {{<<m, e.at>> : e \in {x \in increments(kind, m, key[2]) : x.key = key}} :
                          m \in matches})

\* C25: after complete runs of jobs of one kind, one after the other and none
\* of them killed, no match is counted more than once in an aggregate row:
\* the games of a row are at most the increments that the matches of the
\* store yield for its key when each match is counted once
C25_CountedOncePerRow ==
    (jpc = "idle" /\ last_abort = <<>>) =>
        \A r \in BagToSet(agg_tbl) : r.key[2] # NULL => r.games <= once_games(r.key)

\* The increments that the job j yields for the match m
job_increments(j, m) ==
    increments(j[1], m, IF force_tier(j[3]) # NULL THEN force_tier(j[3])
                        ELSE MatchRows[m].mt_tier)

\* The committed aggregate rows hold the increments of the match m from job j
included(j, m) ==
    \A e \in job_increments(j, m) :
        \E r \in BagToSet(agg_tbl) :
            /\ r.key = e.key
            /\ r.games >= Cardinality({x \in job_increments(j, m) : x.key = e.key})

\* C27: in every committed state, a match is in the done-ledger of a job if
\* and only if its increments from that job are in the committed aggregate
\* rows: whatever is in the ledger is in the rows, and whatever a job has
\* committed to the rows is in its ledger
C27_LedgerIffCounted ==
    \A x \in JobIds \X MatchIds :
        /\ x \in backfill_done => included(x[1], x[2])
        /\ contrib[x] >= 1 => x \in backfill_done

\* C28: when the crawl loop has exited, after its condition failed, by an
\* exception or by an interrupt, no write is pending and the checkpoint holds
\* the frontier in its order, the visited set and the three counters as they
\* are in memory
C28_ExitCheckpoint ==
    cr_pc = "exit" =>
        /\ db = wdb
        /\ load_state(crawl_state).queue_list = queue
        /\ load_state(crawl_state).visited_set = seen
        /\ meta_int(persisted_meta(crawl_state), <<"total_players">>) = total_players
        /\ meta_int(persisted_meta(crawl_state), <<"saved_matches">>) = saved_matches
        /\ meta_int(persisted_meta(crawl_state), <<"explored_non_target">>)
               = explored_non_target

\* An interrupt has ended a session that had taken no checkpoint of its own,
\* with a match stored and a frontier left
C28_Witness ==
    /\ cr_pc = "exit"
    /\ status = "INTERRUPTED"
    /\ sessions = 1
    /\ args.checkpoint_every_players = 2
    /\ total_players = 1
    /\ saved_matches >= 1
    /\ queue # <<>>

\* The number of players visited since the checkpoint that is persisted
since_checkpoint ==
    total_players - meta_int(persisted_meta(crawl_state), <<"total_players">>)

\* C29: at every step boundary of the crawl loop, fewer than
\* checkpoint_every_players players have been visited since the persisted
\* checkpoint, and the persisted visited set is a subset of the one in memory
C29_CheckpointCadence ==
    cr_pc = "loop" =>
        /\ since_checkpoint >= 0
        /\ since_checkpoint < args.checkpoint_every_players
        /\ load_state(crawl_state).visited_set \subseteq seen

\* The loop has taken a checkpoint of its own, at the second player of a
\* session with interval 2 that nothing has stopped
C29_Witness ==
    /\ cr_pc = "loop"
    /\ sessions = 1
    /\ hist.faults = 0
    /\ hist.interrupts = 0
    /\ args.checkpoint_every_players = 2
    /\ total_players = 2
    /\ since_checkpoint = 0
    /\ load_state(crawl_state).visited_set = seen

\* C30: after an interrupt of the crawl, its commit and its checkpoint, every
\* match of the store has the rows of all its participants
C30_WholeMatches ==
    (cr_pc = "exit" /\ status = "INTERRUPTED") =>
        \A mid \in db.matches :
            \A i \in DOMAIN ApiMatch[mid].participants :
                <<mid, ApiMatch[mid].participants[i]>> \in db.participants

\* C26: every session of the crawl ends; when its loop ends because its
\* condition fails, the frontier is empty or the number of visited players
\* has reached max_players; the number of visited players is never above
\* max_players
C26_SessionTerminates ==
    /\ Running ~> (cr_pc = "exit")
    /\ []((cr_pc = "exit" /\ status = "DONE")
              => (queue = <<>> \/ total_players >= args.max_players))
    /\ [](total_players <= args.max_players)

\* A session has ended at the cap with a frontier left
C26_Witness ==
    /\ cr_pc = "exit"
    /\ status = "DONE"
    /\ queue # <<>>
    /\ total_players = args.max_players

\* C31: the processing of a fetched match of a patch outside the target set
\* leaves the tables of the store as they are, pending and committed; it
\* leaves the frontier as it is or appends the unvisited participants of the
\* match to it, and it appends only while fewer than explore_limit such
\* matches were explored for the player being visited
C31_NonTargetFrame ==
    [][(/\ cr_pc = "detail"
        /\ cr_pc' = "matches"
        /\ ApiMatch[loc.mid].patch \notin target_patches)
         => /\ wdb' = wdb
            /\ db' = db
            /\ \/ queue' = queue
               \/ /\ queue' = queue \o unseen(ApiMatch[loc.mid].participants, seen)
                  /\ loc.non_target_used < args.explore_limit
            /\ loc'.non_target_used <= args.explore_limit]_vars

\* The match m3 of another patch was explored for the player b: its
\* participant c is in the frontier and m3 is not in the store
C31_Witness ==
    /\ cr_pc = "matches"
    /\ loc.mid = "m3"
    /\ loc.non_target_used = 1
    /\ \E i \in DOMAIN queue : queue[i] = <<"c">>
    /\ "m3" \notin wdb.matches

\* The number of participants of a match whose cached rank has a score
known_cnt(w, mid) ==
    Cardinality({i \in DOMAIN ApiMatch[mid].participants :
                    tier_to_score(rank_cached(w, ApiMatch[mid].participants[i])) > 0})

\* C32: every match of the store has its match-tier summary once the step
\* that stores it is over, and the step that writes the summary writes a
\* label if and only if at least match_tier_min_known participants, and at
\* least one, have a known cached rank; the match is stored in both cases
C32_MatchTierWritten ==
    [][(\A mid \in wdb'.matches :
            \/ mid \in DOMAIN wdb'.match_tier
            \/ cr_pc' = "participants" /\ loc'.mid = mid)
       /\
       ((cr_pc = "participants" /\ cr_pc' = "matches")
            => (/\ loc.mid \in wdb'.matches
                /\ loc.mid \in DOMAIN wdb'.match_tier
                /\ wdb'.match_tier[loc.mid] # NULL
                     <=> /\ known_cnt(wdb, loc.mid) >= args.match_tier_min_known
                         /\ known_cnt(wdb, loc.mid) >= 1))]_vars

\* guess_enemy_roles_iterative as a function of the list of unique ids: the
\* while loop from the champions and roles left, the pairs assigned and the
\* rounds done, then the best role of every champion left over
RECURSIVE guess_loop(_, _, _, _)
guess_loop(champs, roles, asg, n) ==
    IF champs = <<>> \/ roles = <<>> \/ n >= GuardLimit
    THEN [c \in DOMAIN asg \cup elems(champs) |->
             IF c \in DOMAIN asg THEN asg[c] ELSE best_role_for_champ(c, dist, ROLES)]
    ELSE LET na == newly_assigned(champs, roles, asg, dist)
             cid == CHOOSE c \in elems(champs) : \A o \in elems(champs) : c <= o
             role == best_role_for_champ(cid, dist, roles)
         IN  IF DOMAIN na = {}
             THEN guess_loop(without(champs, {cid}), without(roles, {role}),
                             assign(asg, [x \in {cid} |-> role]), n + 1)
             ELSE guess_loop(without(champs, DOMAIN na), roles_left(roles, na),
                             assign(asg, na), n + 1)

\* The picks of the input without any games in dist
no_data == {c \in elems(ids) : champ_total_games(dist[c]) <= 0}

\* C33: a pick without any historical data is labelled UNKNOWN, and every
\* pick with data has the role it has when the inference is run on the input
\* without the picks that have no data
C33_NoDataNoSlot ==
    (g_pc = "done" /\ ids # <<>>) =>
        LET with_data == guess_loop(without(ids, no_data), ROLES, <<>>, 0)
        IN  /\ \A c \in no_data : out2[c] = "UNKNOWN"
            /\ \A c \in elems(ids) \ no_data : out2[c] = with_data[c]

\* Four picks, the one without data between picks with data, and the picks
\* with data settled in more than one round
C33_Witness ==
    /\ g_pc = "done"
    /\ ids = <<1, 2, 3, 4>>
    /\ no_data = {2}
    /\ dist[1] = dist[3]
    /\ guard > 2
    /\ out2[2] = "UNKNOWN"

\* C34: a response whose rate-limit header advertises budgets that differ from
\* the current ones leaves both enforced thresholds at or below the advertised
\* budgets, whether the thresholds came from the defaults or from the
\* environment (a preset or an explicit threshold)
C34_ThresholdsWithinAdvertised ==
    [][(limit_1s' # limit_1s \/ limit_120s' # limit_120s)
          => /\ throttle_limit_1s' <= limit_1s'
             /\ throttle_limit_120s' <= limit_120s']_vars

\* The participant records that a champ-role job counts under a key: those of
\* the matches in its patch scope that have the key's patch, role and
\* champion, the role one of the five and the champion id positive, where the
\* tier of the key is the tier the job files the match under
counted_records(key) ==
    {<<m, i>> \in UNION {{m} \X ValidRows(m) : m \in scope_matches} :
        <<MatchRows[m].patch,
          IF force_tier(job.tier) # NULL THEN force_tier(job.tier)
          ELSE MatchRows[m].mt_tier,
          MatchRows[m].participants[i].role,
          MatchRows[m].participants[i].champ_id>> = key}

won_records(key) ==
    {x \in counted_records(key) : MatchRows[x[1]].participants[x[2]].win = 1}

\* The keys of the records a champ-role job counts, and of the stored rows
counted_keys ==
    {<<MatchRows[m].patch, t, r, c>> :
        m \in matches, t \in {NULL, "EMERALD", "GOLD"}, r \in RoleSet, c \in 7..9}
    \cup {r.key : r \in BagToSet(agg_tbl)}

\* C35: after the first complete champ-role run over empty aggregate rows and
\* an empty ledger, for every key (patch, tier, role, champion) there is a
\* stored row exactly when participant records are counted under the key, and
\* every stored row of the key has their number as its games and the number
\* of those that won as its wins
C35_FirstRunCounts ==
    (kind = "champ_role" /\ runs = 1 /\ jpc = "idle" /\ prev_run # <<>>) =>
        \A key \in counted_keys :
            /\ (\E r \in BagToSet(agg_tbl) : r.key = key) <=> counted_records(key) # {}
            /\ \A r \in BagToSet(agg_tbl) :
                  r.key = key => /\ r.games = Cardinality(counted_records(key))
                                 /\ r.wins = Cardinality(won_records(key))

\* The matches inside the (patch scope, tier scope) of the job j: the patch
\* matches the patch argument, and with a specific tier the label of the
\* match is that tier
in_job_scope(j, m) ==
    /\ Like(MatchRows[m].patch, patch_pat(j[2]))
    /\ force_tier(j[3]) # NULL => MatchRows[m].mt_tier = force_tier(j[3])

\* C36: a job folds exactly the matches inside its (patch scope, tier scope)
\* that are not in its ledger: the matches selected for the loop are those,
\* and every match that a job has committed to the aggregate rows is inside
\* the job's scope, so that rows labelled T by a job of tier T hold only
\* matches whose label is T
C36_FoldsScopeOnly ==
    /\ (jpc = "loop" /\ processed = 0) =>
          {mids[i] : i \in DOMAIN mids} =
              {m \in matches : in_job_scope(jobid, m) /\ <<jobid, m>> \notin backfill_done}
    /\ \A x \in JobIds \X MatchIds : contrib[x] >= 1 => in_job_scope(x[1], x[2])

\* C37: within one session, resumed from a checkpoint or not, an id popped
\* from the frontier that is already visited is discarded without a call of
\* the API, the visited set only grows, and a match list is requested only
\* for an id that was not visited before and is visited from then on, once
\* per visit, so that no match list is requested twice even when the frontier
\* holds an id twice
C37_VisitedOnce ==
    [][/\ (cr_pc \notin {"boot", "exit"}) => seen \subseteq seen'
       /\ (cr_pc = "loop" /\ cr_pc' # "exit" /\ queue # <<>> /\ Head(queue) \in seen)
             => /\ cr_pc' = "loop"
                /\ seen' = seen /\ total_players' = total_players
                /\ loc' = loc /\ wdb' = wdb
       /\ (cr_pc' = "match_ids" /\ cr_pc # "match_ids")
             => /\ cr_pc = "loop"
                /\ loc'.puuid = Head(queue)
                /\ loc'.puuid \notin seen /\ loc'.puuid \in seen'
       /\ (cr_pc = "match_ids") => cr_pc' # "match_ids"]_vars

\* The frontier held an id twice: the second copy has been discarded, in a
\* session that visited every identity
C37_Witness ==
    /\ hist.discarded
    /\ cr_pc = "loop"
    /\ seen = {<<"a">>, <<"b">>, <<"c">>}
    /\ total_players = 3

\* C38: inside a session the stored rank tier of an identity is replaced only
\* by a rank that was fetched successfully for it: a visit without a rank
\* refresh (the cached rank is fresh) and a visit whose rank lookup fails
\* leave the stored tier as it was
C38_StoredRankKept ==
    [][(cr_pc \notin {"boot", "exit"}) =>
          \A p \in DOMAIN wdb.players :
              /\ p \in DOMAIN wdb'.players
              /\ wdb'.players[p].tier # wdb.players[p].tier
                    => /\ cr_pc = "league"
                       /\ loc.puuid = p
                       /\ ApiTier[p] # NULL
                       /\ wdb'.players[p].tier = ApiTier[p]]_vars

\* The aggregate rows of the patch scope of the query whose tier is in Ts
rows_of_tiers(Ts) ==
    {r \in agg_champ_role : (rq.patch = "ALL" \/ r.patch = rq.patch) /\ r.tier \in Ts}

\* Those of them of the role of the query: the rows of the pick-rate
\* denominator
denominator_rows(Ts) ==
    {r \in rows_of_tiers(Ts) :
        r.role = normalize_role_with_db(agg_champ_role, rq.my_role)}

\* The rows of the base score of the candidates: those of the role of the
\* query, or of every role when no candidate has a row of that role
scored_rows(Ts) ==
    IF {r \in denominator_rows(Ts) : r.champ_id \in candidates} # {}
    THEN {r \in denominator_rows(Ts) : r.champ_id \in candidates}
    ELSE {r \in rows_of_tiers(Ts) : r.champ_id \in candidates}

\* SELECT champ_id, role, SUM(games) ... WHERE <patch> AND <tier> GROUP BY
\* champ_id, role: the entry dist[cid][role] of the role distribution
champ_role_distribution(cid, role) ==
    sum_games({r \in in_scope(agg_champ_role, rq.patch, rq.tier) :
                  r.champ_id = cid /\ r.role = role})

\* The games and wins of the query are the sums over the rows of tiers Ts
sums_over(Ts) ==
    /\ r_pc # "start" =>
          \A r \in agg_champ_role :
              champ_role_distribution(r.champ_id, r.role) =
                  sum_games({x \in rows_of_tiers(Ts) :
                                x.champ_id = r.champ_id /\ x.role = r.role})
    /\ r_pc # "start" =>
          total_games_for_role(agg_champ_role, rq) = sum_games(denominator_rows(Ts))
    /\ r_pc = "done" =>
          \A rec \in elems(recs) :
              /\ rec.games = games_of(scored_rows(Ts), rec.champ_id)
              /\ rec.final_score =
                    wilson_lower_bound(wins_of(scored_rows(Ts), rec.champ_id),
                                       games_of(scored_rows(Ts), rec.champ_id))

\* C39 as stated: for a query with a specific tier T the games and wins of
\* the base score and of the pick-rate denominator are the sums over the rows
\* whose tier equals T only
C39_TierRowsOnly == rq.tier # "ALL" => sums_over({rq.tier})

\* C39: for a query with a specific tier T the games and wins of the base
\* score and of the pick-rate denominator are the sums over the rows whose
\* tier equals T or that have no tier label; rows of other tiers are excluded
C39_TierOrUnlabelledRows == rq.tier # "ALL" => sums_over({rq.tier, NULL})

\* A query for EMERALD over every patch has recommended champion 2 with the
\* games of its EMERALD row and of its row without a label, and champion 3
\* without the games of its GOLD row
C39_Witness ==
    /\ r_pc = "done"
    /\ rq.tier = "EMERALD"
    /\ Row("16.2", "GOLD", "TOP", 3, 2, 1) \in agg_champ_role
    /\ \E rec \in elems(recs) : rec.champ_id = 2 /\ rec.games = 2
    /\ \E rec \in elems(recs) : rec.champ_id = 3 /\ rec.games = 4

\* The increments that the done-ledger accounts for under a key: those of
\* every match in the ledger of a job of the kind, from that job
ledger_increments(key) ==
    UNION {{<<x, e.at>> : e \in {i \in job_increments(x[1], x[2]) : i.key = key}} :
              x \in {d \in backfill_done : d[1][1] = kind}}

\* C40: after a complete run of a job A in reset mode, every match in the
\* ledger of another job B of the same kind still has its increments from B
\* in the aggregate rows (the row of each of their keys holds the increments
\* of all the ledgers), and the commit of A's reset leaves the ledger entries
\* of the other jobs as they were
C40_ResetKeepsOtherJobs ==
    /\ []((jpc = "idle" /\ job.reset /\ prev_run # <<>> /\ last_abort = <<>>) =>
            \A x \in {d \in backfill_done : d[1] # jobid} :
                \A e \in {i \in job_increments(x[1], x[2]) : i.key[2] # NULL} :
                    \E r \in BagToSet(agg_tbl) :
                        /\ r.key = e.key
                        /\ r.games >= Cardinality(ledger_increments(e.key)))
    /\ [][(jpc = "reset_commit" /\ jpc' = "count") =>
             {d \in backfill_done' : d[1] # jobid} = {d \in backfill_done : d[1] # jobid}]_vars

====
